---- MODULE Spec2Model ----
(***************************************************************************)
(* Model of the receipt / cover-letter generator:                          *)
(*   - safeReplaceInXml   (run-safe substitution inside <w:p> paragraphs)  *)
(*   - findReceiptPage    (scan of the pages for the receipt page)         *)
(*   - detectPositions    (anchor detection inside the receipt section)    *)
(*   - extractInfoFromText (fields of a document read from its OCR text)   *)
(*   - px2pdf             (pixel coordinates to page coordinates)          *)
(*                                                                         *)
(* Text is modelled as a sequence of characters (one-character strings, or *)
(* a short ASCII name standing for one kanji); the text that               *)
(* extractInfoFromText matches its patterns against is a sequence of       *)
(* UTF-16 code units.  A paragraph is modelled by the sequence of its      *)
(* <w:t> elements, each with its attribute string (a sequence of attribute *)
(* tokens) and its text; the markup between the <w:t> elements is copied   *)
(* by the code and is not represented.                                     *)
(***************************************************************************)
EXTENDS Integers, Sequences, FiniteSets, TLC

VARIABLES
  pc,           \* position of the running function
  xml,          \* safeReplaceInXml: the document, a sequence of paragraphs
  oldText,      \* safeReplaceInXml: the text searched for
  newText,      \* safeReplaceInXml: the text put in its place
  outXml,       \* safeReplaceInXml: the returned document
  pages,        \* findReceiptPage: OCR result of every page of the PDF
  scanIdx,      \* findReceiptPage: position in scanOrder of the next page
  bestPageNum,  \* findReceiptPage: bestPageNum
  bestOcr,      \* findReceiptPage: bestOcr (empty sequence for null)
  bestScore,    \* findReceiptPage: bestScore
  ocrCalls,     \* findReceiptPage: page numbers passed to runOcr, in order
  ret,          \* findReceiptPage: the returned { pageNum, ocr }
  words,        \* detectPositions: the OCR word list (the objects are shared with the caller)
  img,          \* detectPositions: imgW, imgH
  pg,           \* detectPositions: pgW, pgH
  anchors,      \* detectPositions: receiptStartY, gyouWord, dateWord, agentWord at the return
  pos,          \* detectPositions: the returned positions (empty sequence before the call)
  drawn,        \* generateReceipt: the annotations drawn on the page, in order
  text,         \* extractInfoFromText: the text of the document, UTF-16 code units
  config,       \* extractInfoFromText: CONFIG (lawyerNames, faxNumbers of the own office)
  info,         \* extractInfoFromText: the returned record (empty sequence before the call)
  faxLists,     \* extractInfoFromText: allExplicitFaxes and allFaxEntries (empty sequence before they are built)
  faxIdx,       \* extractInfoFromText: position of the fax loops (0 outside them)
  pixel,        \* px2pdf: the arguments px, py, imgW, imgH, pgW, pgH
  point         \* px2pdf: the returned point (empty sequence before the call)

replaceVars == <<xml, oldText, newText, outXml>>
findVars == <<pages, scanIdx, bestPageNum, bestOcr, bestScore, ocrCalls, ret>>
detectVars == <<words, img, pg, anchors, pos, drawn>>
extractVars == <<text, config, info, faxLists, faxIdx>>
convertVars == <<pixel, point>>
vars == <<pc, replaceVars, findVars, detectVars, extractVars, convertVars>>

\* ------------------------------------------------------------------------
\* Bounds of the substitution inputs
\* ------------------------------------------------------------------------
MaxRuns == 3
MaxLen == 3
MaxOld == 2
MaxNew == 2

Alphabet == {"a", "b"}
NewAlphabet == {"b"}

\* ------------------------------------------------------------------------
\* JavaScript string helpers, on sequences of characters
\* ------------------------------------------------------------------------
Min(a, b) == IF a < b THEN a ELSE b
Max(a, b) == IF a > b THEN a ELSE b
Abs(a) == IF a < 0 THEN 0 - a ELSE a

\* s.substring(a, b): indices clamped to [0, length], swapped when a > b
Substring(s, a, b) ==
  LET ca == Max(0, Min(a, Len(s)))
      cb == Max(0, Min(b, Len(s)))
  IN  SubSeq(s, Min(ca, cb) + 1, Max(ca, cb))

\* s.substring(a)
SubstringFrom(s, a) == Substring(s, a, Len(s))

\* does t occur in s at 0-based offset i
OccursAt(s, t, i) ==
  /\ i >= 0
  /\ i + Len(t) <= Len(s)
  /\ SubSeq(s, i + 1, i + Len(t)) = t

\* s.indexOf(t): smallest offset of an occurrence, -1 when there is none
IndexOf(s, t) ==
  IF \E i \in 0..Len(s) : OccursAt(s, t, i)
    THEN CHOOSE i \in 0..Len(s) :
           /\ OccursAt(s, t, i)
           /\ \A j \in 0..(i - 1) : ~OccursAt(s, t, j)
    ELSE 0 - 1

\* s.includes(t)
Includes(s, t) == \E i \in 0..Len(s) : OccursAt(s, t, i)

RECURSIVE Join(_)
\* array.join('') of a sequence of texts
Join(ts) == IF ts = <<>> THEN <<>> ELSE Head(ts) \o Join(Tail(ts))

\* ------------------------------------------------------------------------
\* safeReplaceInXml
\* ------------------------------------------------------------------------
SpacePreserve == "xml:space=\"preserve\""
SpaceDefault == "xml:space=\"default\""

\* attrs.includes('xml:space="preserve"')
hasPreserve(attrs) == \E i \in DOMAIN attrs : attrs[i] = SpacePreserve

\* hasPreserve ? attrs : ' xml:space="preserve"'
newAttrs(attrs) == IF hasPreserve(attrs) THEN attrs ELSE <<SpacePreserve>>

\* segments.map(s => s.text).join('')
joinedText(block) == Join([i \in DOMAIN block |-> block[i].text])

\* seg.startPos / seg.endPos: cumulative offsets of the segments
RECURSIVE startPos(_, _)
startPos(block, i) ==
  IF i <= 1 THEN 0 ELSE startPos(block, i - 1) + Len(block[i - 1].text)

endPos(block, i) == startPos(block, i) + Len(block[i].text)

matchStart(block, old) == IndexOf(joinedText(block), old)
matchEnd(block, old) == matchStart(block, old) + Len(old)

\* faulty variant: the overlap test written with >= instead of >
affectedSegs_inclusive(block, old) ==
  { i \in DOMAIN block :
      /\ endPos(block, i) >= matchStart(block, old)
      /\ startPos(block, i) < matchEnd(block, old) }

\* indices of segments.filter(seg => seg.endPos > matchStart && seg.startPos < matchEnd)
affectedSegs(block, old) ==
  { i \in DOMAIN block :
      /\ endPos(block, i) > matchStart(block, old)
      /\ startPos(block, i) < matchEnd(block, old) }

SetMin(S) == CHOOSE x \in S : \A y \in S : x <= y
SetMax(S) == CHOOSE x \in S : \A y \in S : x >= y

\* the single-segment splice
spliceSingle(block, old, new, i) ==
  LET seg == block[i]
      localStart == matchStart(block, old) - startPos(block, i)
      localEnd == matchEnd(block, old) - startPos(block, i)
  IN  [attrs |-> newAttrs(seg.attrs),
       text |-> Substring(seg.text, 0, localStart) \o new
                  \o SubstringFrom(seg.text, localEnd)]

\* faulty variant: the first affected segment loses its pre-match prefix
rewriteFirst_noPrefix(block, old, new, i) ==
  [attrs |-> newAttrs(block[i].attrs), text |-> new]

\* the first affected segment of a multi-segment match
rewriteFirst(block, old, new, i) ==
  LET seg == block[i]
      localStart == matchStart(block, old) - startPos(block, i)
  IN  [attrs |-> newAttrs(seg.attrs),
       text |-> Substring(seg.text, 0, localStart) \o new]

\* faulty variant: the last affected segment is rebuilt the same way whether or not
\* anything remains after the match
rewriteLast_alwaysNewAttrs(block, old, i) ==
  LET seg == block[i]
      localEnd == matchEnd(block, old) - startPos(block, i)
  IN  [attrs |-> newAttrs(seg.attrs), text |-> SubstringFrom(seg.text, localEnd)]

\* the last affected segment of a multi-segment match
rewriteLast(block, old, i) ==
  LET seg == block[i]
      localEnd == matchEnd(block, old) - startPos(block, i)
      remaining == SubstringFrom(seg.text, localEnd)
  IN  IF Len(remaining) > 0
        THEN [attrs |-> newAttrs(seg.attrs), text |-> remaining]
        ELSE [attrs |-> seg.attrs, text |-> <<>>]

\* faulty variant: a middle segment is left as it was
rewriteMiddle_kept(block, i) == block[i]

\* a segment strictly between the first and the last affected one
rewriteMiddle(block, i) == [attrs |-> block[i].attrs, text |-> <<>>]

\* the rewriting of a paragraph once the match is known to be there
rewritePara(block, old, new) ==
  LET aff == affectedSegs(block, old) IN
    IF aff = {} THEN block
    ELSE IF Cardinality(aff) = 1
      THEN LET i == SetMin(aff) IN
             [block EXCEPT ![i] = spliceSingle(block, old, new, i)]
      ELSE [i \in DOMAIN block |->
              IF i \notin aff THEN block[i]
              ELSE IF i = SetMin(aff) /\ i = SetMax(aff)
                THEN spliceSingle(block, old, new, i)
              ELSE IF i = SetMin(aff) THEN rewriteFirst(block, old, new, i)
              ELSE IF i = SetMax(aff) THEN rewriteLast(block, old, i)
              ELSE rewriteMiddle(block, i)]

\* faulty variant: the paragraph is rewritten without testing that it contains oldText
replaceInPara_noIncludes(block, old, new) ==
  IF Len(block) = 0 THEN block ELSE rewritePara(block, old, new)

\* the callback of xml.replace(paraRegex, ...): one paragraph
replaceInPara(block, old, new) ==
  IF Len(block) = 0 THEN block
  ELSE IF ~Includes(joinedText(block), old) THEN block
  ELSE rewritePara(block, old, new)

safeReplaceInXml(doc, old, new) ==
  [p \in DOMAIN doc |-> replaceInPara(doc[p], old, new)]

\* ------------------------------------------------------------------------
\* Inputs of the substitution
\* ------------------------------------------------------------------------
SeqsUpTo(S, n) == UNION { [1..k -> S] : k \in 0..n }

Run(a, t) == [attrs |-> a, text |-> t]

\* attribute strings of the <w:t> elements of a paragraph, repeated cyclically
AttrPatterns ==
  { << <<>> >>, << <<SpacePreserve>> >>, << <<>>, <<SpacePreserve>> >>,
    << <<SpaceDefault>>, <<>> >> }

RECURSIVE TextsOf(_, _)
\* the texts of exactly k runs holding at most n characters together
TextsOf(k, n) ==
  IF k = 0 THEN { <<>> }
  ELSE UNION { { <<t>> \o ts : ts \in TextsOf(k - 1, n - Len(t)) } :
                 t \in SeqsUpTo(Alphabet, n) }

\* paragraphs of exactly k runs and at most n characters
BlocksOf(k, n) ==
  { [i \in 1..k |-> Run(pat[((i - 1) % Len(pat)) + 1], ts[i])] :
      ts \in TextsOf(k, n), pat \in AttrPatterns }

\* paragraphs of at most MaxRuns runs and MaxLen characters
Blocks == UNION { BlocksOf(k, MaxLen) : k \in 0..MaxRuns }

\* a paragraph cut in two at run k
SplitAt(b, k) == << SubSeq(b, 1, k), SubSeq(b, k + 1, Len(b)) >>

\* documents: one paragraph, or two paragraphs of one run each
Docs ==
  { <<b>> : b \in Blocks } \cup { SplitAt(b, 1) : b \in BlocksOf(2, MaxLen) }

OldTexts == SeqsUpTo(Alphabet, MaxOld) \ { <<>> }
NewTexts == SeqsUpTo(NewAlphabet, MaxNew)

\* the examples of the specification: ["ABC","DEF"], "CD" -> "XYZ", and a
\* match that covers a whole run between two others
ExampleInputs ==
  { [xml |-> << << Run(<<>>, <<"A", "B", "C">>), Run(<<SpacePreserve>>, <<"D", "E", "F">>) >> >>,
     old |-> <<"C", "D">>, new |-> <<"X", "Y", "Z">>],
    [xml |-> << << Run(<<>>, <<"A", "B">>), Run(<<SpaceDefault>>, <<"C", "D">>),
                   Run(<<>>, <<"E", "F">>) >> >>,
     old |-> <<"B", "C", "D", "E">>, new |-> <<"X">>],
    [xml |-> << << Run(<<>>, <<"A", "B">>), Run(<<SpaceDefault>>, <<"C", "D">>),
                   Run(<<SpaceDefault>>, <<"E">>) >> >>,
     old |-> <<"B", "C", "D", "E">>, new |-> <<>>] }

ReplaceInputs ==
  { [xml |-> d, old |-> o, new |-> n] : d \in Docs, o \in OldTexts, n \in NewTexts }
    \cup ExampleInputs

NoXml == <<>>

\* values of the variables of a function that is not running
IdleReplace ==
  /\ xml = NoXml
  /\ oldText = <<>>
  /\ newText = <<>>
  /\ outXml = NoXml

IdleFind ==
  /\ pages = <<>>
  /\ scanIdx = 0
  /\ bestPageNum = 0
  /\ bestOcr = <<>>
  /\ bestScore = 0
  /\ ocrCalls = <<>>
  /\ ret = <<>>

IdleDetect ==
  /\ words = <<>>
  /\ img = [w |-> 0, h |-> 0]
  /\ pg = [w |-> 0, h |-> 0]
  /\ anchors = <<>>
  /\ pos = <<>>
  /\ drawn = <<>>

\* the two lists before they are built
NoFaxLists == <<>>

IdleExtract ==
  /\ text = <<>>
  /\ config = [lawyerNames |-> <<>>, faxNumbers |-> <<>>]
  /\ info = <<>>
  /\ faxLists = NoFaxLists
  /\ faxIdx = 0

IdleConvert ==
  /\ pixel = [px |-> 0, py |-> 0, imgW |-> 0, imgH |-> 0, pgW |-> 0, pgH |-> 0]
  /\ point = <<>>

InitReplace ==
  /\ pc = "replace"
  /\ IdleFind
  /\ IdleDetect
  /\ IdleExtract
  /\ IdleConvert
  /\ \E inp \in ReplaceInputs :
       /\ xml = inp.xml
       /\ oldText = inp.old
       /\ newText = inp.new
  /\ outXml = NoXml

\* docXml = safeReplaceInXml(docXml, oldText, newText)
Replace ==
  /\ pc = "replace"
  /\ outXml' = safeReplaceInXml(xml, oldText, newText)
  /\ pc' = "replaced"
  /\ UNCHANGED <<extractVars, convertVars, xml, oldText, newText, findVars, detectVars>>

NextReplace == Replace

SpecReplace == InitReplace /\ [][NextReplace]_vars

\* ========================================================================
\* Properties of safeReplaceInXml
\* ========================================================================

\* offsets at which old occurs in s
Occurrences(s, old) == { i \in 0..Len(s) : OccursAt(s, old, i) }

\* s with the occurrence of old at its smallest offset replaced by new
LeftmostReplaced(s, old, new) ==
  LET i == SetMin(Occurrences(s, old))
  IN  SubSeq(s, 1, i) \o new \o SubSeq(s, i + Len(old) + 1, Len(s))

\* character offsets covered by run i of a paragraph
RunSpan(block, i) ==
  { c \in 0..Len(joinedText(block)) :
      /\ c >= startPos(block, i)
      /\ c < startPos(block, i) + Len(block[i].text) }

\* character offsets of the leftmost occurrence of old in a paragraph
MatchSpan(block, old) ==
  LET i == SetMin(Occurrences(joinedText(block), old))
  IN  { c \in 0..Len(joinedText(block)) : c >= i /\ c < i + Len(old) }

\* runs that share at least one character with the match
Overlapping(block, old) ==
  { i \in DOMAIN block : RunSpan(block, i) \cap MatchSpan(block, old) # {} }

Contains(block, old) == Occurrences(joinedText(block), old) # {}

ReplaceDone == pc = "replaced"

\* C1: a paragraph whose joined run text contains oldText has, after the
\* call, a joined run text equal to the original with exactly the leftmost
\* occurrence of oldText replaced by newText.
C1_LeftmostOccurrenceReplaced ==
  ReplaceDone =>
    /\ Len(outXml) = Len(xml)
    /\ \A p \in DOMAIN xml :
         Contains(xml[p], oldText) =>
           joinedText(outXml[p]) =
             LeftmostReplaced(joinedText(xml[p]), oldText, newText)

\* C1 witness: a match that spans several runs, with a second occurrence of
\* oldText further right and a replacement of a different length.
C1_Witness ==
  /\ ReplaceDone
  /\ \E p \in DOMAIN xml :
       /\ Contains(xml[p], oldText)
       /\ Cardinality(Overlapping(xml[p], oldText)) >= 2
       /\ Cardinality(Occurrences(joinedText(xml[p]), oldText)) >= 2
       /\ Len(newText) # Len(oldText)
       /\ joinedText(outXml[p]) # joinedText(xml[p])

\* C2: a paragraph whose joined run text does not contain oldText is
\* returned unchanged, run for run.
C2_NonMatchingBlockUnchanged ==
  ReplaceDone =>
    \A p \in DOMAIN xml :
      ~Contains(xml[p], oldText) => outXml[p] = xml[p]

\* C2 witness: oldText appears only by joining the text of two paragraphs.
C2_Witness ==
  /\ ReplaceDone
  /\ Len(xml) = 2
  /\ ~Contains(xml[1], oldText)
  /\ ~Contains(xml[2], oldText)
  /\ Includes(joinedText(xml[1]) \o joinedText(xml[2]), oldText)
  /\ outXml = xml

\* C3: in a modified paragraph every run that shares no character with the
\* match keeps its text, its attributes and its position.
C3_RunsOutsideMatchKept ==
  ReplaceDone =>
    \A p \in DOMAIN xml :
      Contains(xml[p], oldText) =>
        /\ Len(outXml[p]) = Len(xml[p])
        /\ \A i \in DOMAIN xml[p] :
             i \notin Overlapping(xml[p], oldText) => outXml[p][i] = xml[p][i]

\* C3 witness: a modified paragraph with a non-empty run that ends exactly
\* where the match starts and an empty run at a boundary of the match.
C3_Witness ==
  /\ ReplaceDone
  /\ \E p \in DOMAIN xml :
       /\ Contains(xml[p], oldText)
       /\ outXml[p] # xml[p]
       /\ \E i \in DOMAIN xml[p] :
            /\ Len(xml[p][i].text) > 0
            /\ endPos(xml[p], i) = matchStart(xml[p], oldText)
       /\ \E j \in DOMAIN xml[p] :
            /\ Len(xml[p][j].text) = 0
            /\ \/ startPos(xml[p], j) = matchStart(xml[p], oldText)
               \/ startPos(xml[p], j) = matchEnd(xml[p], oldText)

\* text before the match inside run i, and text after the match inside run i
PrefixIn(block, old, i) ==
  LET ms == SetMin(Occurrences(joinedText(block), old))
  IN  SubSeq(block[i].text, 1, ms - startPos(block, i))

SuffixIn(block, old, i) ==
  LET me == SetMin(Occurrences(joinedText(block), old)) + Len(old)
  IN  SubSeq(block[i].text, me - startPos(block, i) + 1, Len(block[i].text))

Texts(block) == [i \in DOMAIN block |-> block[i].text]

\* C4: when the match overlaps two or more runs the number of runs is
\* unchanged, the first overlapping run becomes prefix + newText, the last
\* becomes its suffix, and every run between them becomes empty; the
\* ["ABC","DEF"] example gives ["ABXYZ","EF"].
C4_MultiRunRewrite ==
  ReplaceDone =>
    /\ \A p \in DOMAIN xml :
         (Contains(xml[p], oldText)
            /\ Cardinality(Overlapping(xml[p], oldText)) >= 2) =>
           LET first == SetMin(Overlapping(xml[p], oldText))
               last == SetMax(Overlapping(xml[p], oldText))
           IN  /\ Len(outXml[p]) = Len(xml[p])
               /\ outXml[p][first].text = PrefixIn(xml[p], oldText, first) \o newText
               /\ outXml[p][last].text = SuffixIn(xml[p], oldText, last)
               /\ \A i \in DOMAIN xml[p] :
                    (first < i /\ i < last) => outXml[p][i].text = <<>>
    /\ (Texts(xml[1]) = << <<"A", "B", "C">>, <<"D", "E", "F">> >>
          /\ oldText = <<"C", "D">> /\ newText = <<"X", "Y", "Z">>) =>
         Texts(outXml[1]) = << <<"A", "B", "X", "Y", "Z">>, <<"E", "F">> >>

\* C4 witness: a match over three runs whose middle run had text, with text
\* left before and after the match.
C4_Witness ==
  /\ ReplaceDone
  /\ \E p \in DOMAIN xml :
       /\ Contains(xml[p], oldText)
       /\ Cardinality(Overlapping(xml[p], oldText)) >= 3
       /\ LET first == SetMin(Overlapping(xml[p], oldText))
              last == SetMax(Overlapping(xml[p], oldText))
          IN  /\ PrefixIn(xml[p], oldText, first) # <<>>
              /\ SuffixIn(xml[p], oldText, last) # <<>>
              /\ xml[p][first + 1].text # <<>>
              /\ outXml[p][first + 1].text = <<>>

\* C5 (as stated): no run's attributes are changed by the call.
C5_AttributesNeverChange ==
  ReplaceDone =>
    \A p \in DOMAIN xml :
      /\ Len(outXml[p]) = Len(xml[p])
      /\ \A i \in DOMAIN xml[p] : outXml[p][i].attrs = xml[p][i].attrs

\* runs the call rebuilds with text: the first overlapping run, and the last
\* overlapping run when something remains after the match
Rebuilt(block, old) ==
  IF ~Contains(block, old) THEN {}
  ELSE LET ov == Overlapping(block, old) IN
    { i \in ov : \/ i = SetMin(ov)
                 \/ (i = SetMax(ov) /\ SuffixIn(block, old, i) # <<>>) }

\* C5 (amended): a run keeps its attributes unless it is rebuilt with text
\* and its attributes lack xml:space="preserve"; such a run's attributes
\* become exactly xml:space="preserve".
C5_AttributesKeptOrPreserve ==
  ReplaceDone =>
    \A p \in DOMAIN xml :
      /\ Len(outXml[p]) = Len(xml[p])
      /\ \A i \in DOMAIN xml[p] :
           IF i \in Rebuilt(xml[p], oldText) /\ ~hasPreserve(xml[p][i].attrs)
             THEN outXml[p][i].attrs = <<SpacePreserve>>
             ELSE outXml[p][i].attrs = xml[p][i].attrs

\* C5 witness: a multi-run match in which the first run gains the preserve
\* attribute, a run with another attribute loses it, and the last run, left
\* empty, keeps its attributes.
C5_Witness ==
  /\ ReplaceDone
  /\ \E p \in DOMAIN xml :
       /\ Contains(xml[p], oldText)
       /\ LET ov == Overlapping(xml[p], oldText) IN
            /\ Cardinality(ov) >= 2
            /\ xml[p][SetMin(ov)].attrs = <<>>
            /\ outXml[p][SetMin(ov)].attrs = <<SpacePreserve>>
            /\ SuffixIn(xml[p], oldText, SetMax(ov)) = <<>>
            /\ xml[p][SetMax(ov)].attrs = <<SpaceDefault>>
            /\ outXml[p][SetMax(ov)].attrs = <<SpaceDefault>>

\* ========================================================================
\* OCR words
\*
\* A word is { text, x1, y1, x2, y2 } in pixels; titleEndX and lineStartX
\* hold the properties _titleEndX and _lineStartX (empty sequence while the
\* property is not set).  One kanji is written as one short ASCII string:
\*   ju ryo sho  = the three characters of the receipt label
\*   gyo         = the strike target     dono, ate = other honorifics
\*   rei wa      = the era name          nen, gatsu = year, month
\*   dai ri nin  = agent / representative
\*   ben go shi  = attorney              hi koku, gen koku = defendant, plaintiff
\*   gin, hon, bun = characters of running text
\* ========================================================================
CharW == 40
CharH == 40

Word(t, x, y) ==
  [text |-> t, x1 |-> x, y1 |-> y, x2 |-> x + CharW * Len(t), y2 |-> y + CharH,
   titleEndX |-> <<>>, lineStartX |-> <<>>]

ImgWidth == 1240
ImgHeight == 1754

\* ------------------------------------------------------------------------
\* findReceiptLabel
\* ------------------------------------------------------------------------
NullY == 0 - 1

LabelLineTol == 50
LabelReach == 300

findReceiptLabel(ws) ==
  LET IsDirect(w) ==
        Includes(w.text, <<"ju", "ryo", "sho">>) \/ Includes(w.text, <<"ju", "ryo">>)
      direct == SelectSeq(ws, IsDirect)
      IsJu(w) == w.text = <<"ju">>
      juWords == SelectSeq(ws, IsJu)
      HasRyou(ju) ==
        \E k \in DOMAIN ws :
          /\ ws[k].text = <<"ryo">>
          /\ Abs(ws[k].y1 - ju.y1) < LabelLineTol
          /\ ws[k].x1 > ju.x1
          /\ ws[k].x1 < ju.x1 + LabelReach
      hits == SelectSeq(juWords, HasRyou)
  IN  IF direct # <<>> THEN [found |-> TRUE, y |-> direct[1].y1]
      ELSE IF hits # <<>> THEN [found |-> TRUE, y |-> Head(hits).y1]
      ELSE [found |-> FALSE, y |-> NullY]

\* ------------------------------------------------------------------------
\* scoreReceiptPage
\*
\* A page is the result of runOcr: { words, imgWidth, imgHeight }.  nFiller
\* counts further words of running text at the end of the word list, none
\* of which holds a character of the label, the era name or the agent
\* title; they only add to words.length.
\* ------------------------------------------------------------------------
LabelScore == 50
EraScore == 10
AgentScore == 10
LongPage == 200
VeryLongPage == 300
LongPenalty == 20
Confident == 50

wordsLength(ocr) == Len(ocr.words) + ocr.nFiller

\* faulty variant: the label counts no more than the two minor tokens together
scoreReceiptPage_weakLabel(ocr) ==
  LET allText == Join([i \in DOMAIN ocr.words |-> ocr.words[i].text])
  IN  (IF findReceiptLabel(ocr.words).found THEN EraScore + AgentScore ELSE 0)
      + (IF Includes(allText, <<"rei", "wa">>) THEN EraScore ELSE 0)
      + (IF Includes(allText, <<"dai", "ri", "nin">>) THEN AgentScore ELSE 0)
      - (IF wordsLength(ocr) > LongPage THEN LongPenalty ELSE 0)
      - (IF wordsLength(ocr) > VeryLongPage THEN LongPenalty ELSE 0)

scoreReceiptPage(ocr) ==
  LET allText == Join([i \in DOMAIN ocr.words |-> ocr.words[i].text])
  IN  (IF findReceiptLabel(ocr.words).found THEN LabelScore ELSE 0)
      + (IF Includes(allText, <<"rei", "wa">>) THEN EraScore ELSE 0)
      + (IF Includes(allText, <<"dai", "ri", "nin">>) THEN AgentScore ELSE 0)
      - (IF wordsLength(ocr) > LongPage THEN LongPenalty ELSE 0)
      - (IF wordsLength(ocr) > VeryLongPage THEN LongPenalty ELSE 0)

\* ------------------------------------------------------------------------
\* findReceiptPage
\* ------------------------------------------------------------------------
MaxPages == 5

Ocr(ws, n) ==
  [words |-> ws, nFiller |-> n, imgWidth |-> ImgWidth, imgHeight |-> ImgHeight]

\* the pages a PDF is made of
PageKinds ==
  { \* running text; the two label characters are too far apart to be a label
    Ocr(<< Word(<<"ju">>, 100, 200), Word(<<"ryo">>, 500, 200), Word(<<"hon", "bun">>, 100, 400) >>, 0),
    \* the label in one word
    Ocr(<< Word(<<"ju", "ryo", "sho">>, 500, 900), Word(<<"gyo">>, 700, 1000) >>, 0),
    \* the label spread over separate words on one line
    Ocr(<< Word(<<"ju">>, 400, 900), Word(<<"ryo">>, 520, 910), Word(<<"sho">>, 640, 900) >>, 0),
    \* era name and agent title, each split over two words, no label
    Ocr(<< Word(<<"rei">>, 100, 300), Word(<<"wa", "dai", "ri">>, 140, 300), Word(<<"nin">>, 260, 300) >>, 0),
    \* the label on a page of more than 300 words
    Ocr(<< Word(<<"ju", "ryo">>, 500, 900) >>, VeryLongPage),
    \* the label, the era name and the agent title on a page of more than 200 words
    Ocr(<< Word(<<"ju", "ryo", "sho">>, 500, 900), Word(<<"rei", "wa">>, 100, 1100),
           Word(<<"dai", "ri", "nin">>, 100, 1400) >>, LongPage),
    \* running text of more than 200 words
    Ocr(<< Word(<<"hon", "bun">>, 100, 100) >>, LongPage) }

PdfInputs == UNION { [1..n -> PageKinds] : n \in 1..MaxPages }

InitFind ==
  /\ pc = "find"
  /\ IdleReplace
  /\ IdleDetect
  /\ IdleExtract
  /\ IdleConvert
  /\ pages \in PdfInputs
  /\ scanIdx = 0
  /\ bestPageNum = 0
  /\ bestOcr = <<>>
  /\ bestScore = 0
  /\ ocrCalls = <<>>
  /\ ret = <<>>

totalPages == Len(pages)

\* runOcr(pdfPath, p)
runOcr(p) == pages[p]

\* faulty variant: the pages are scanned in their natural order
scanOrder_natural(n) == [i \in 1..n |-> i]

\* scanOrder = [1, totalPages, 2, ..., totalPages - 1]
scanOrder(n) == <<1, n>> \o [i \in 1..(n - 2) |-> i + 1]

NegInfinity == 0 - 1000

\* if (totalPages === 1) return { pageNum: 1, ocr: runOcr(pdfPath, 1) }
FindSinglePage ==
  /\ pc = "find"
  /\ totalPages = 1
  /\ ocrCalls' = Append(ocrCalls, 1)
  /\ ret' = << [pageNum |-> 1, ocr |-> runOcr(1)] >>
  /\ pc' = "found"
  /\ UNCHANGED <<extractVars, convertVars, replaceVars, detectVars, pages, scanIdx, bestPageNum, bestOcr, bestScore>>

\* scanOrder is built and the best-so-far variables are initialised
FindBegin ==
  /\ pc = "find"
  /\ totalPages # 1
  /\ bestPageNum' = 1
  /\ bestOcr' = <<>>
  /\ bestScore' = NegInfinity
  /\ scanIdx' = 1
  /\ pc' = "scan"
  /\ UNCHANGED <<extractVars, convertVars, replaceVars, detectVars, pages, ocrCalls, ret>>

\* faulty variant: a page replaces the best one when its score is at least as high
isBetter_orEqual(score, best) == score >= best

\* faulty variant: the comparison is the wrong way round
isBetter_reversed(score, best) == score < best

\* score > bestScore
isBetter(score, best) == score > best

\* score >= 50
isConfident(score) == score >= Confident

\* one iteration of for (const p of scanOrder)
ScanPage ==
  /\ pc = "scan"
  /\ scanIdx <= Len(scanOrder(totalPages))
  /\ LET p == scanOrder(totalPages)[scanIdx]
         ocr == runOcr(p)
         score == scoreReceiptPage(ocr)
     IN  /\ ocrCalls' = Append(ocrCalls, p)
         /\ IF isBetter(score, bestScore)
              THEN /\ bestScore' = score
                   /\ bestPageNum' = p
                   /\ bestOcr' = <<ocr>>
              ELSE UNCHANGED <<bestScore, bestPageNum, bestOcr>>
         /\ IF isConfident(score)
              THEN /\ ret' = << [pageNum |-> p, ocr |-> ocr] >>
                   /\ pc' = "found"
                   /\ UNCHANGED scanIdx
              ELSE /\ scanIdx' = scanIdx + 1
                   /\ UNCHANGED <<ret, pc>>
  /\ UNCHANGED <<extractVars, convertVars, replaceVars, detectVars, pages>>

\* return { pageNum: bestPageNum, ocr: bestOcr } after the loop
ScanEnd ==
  /\ pc = "scan"
  /\ scanIdx > Len(scanOrder(totalPages))
  /\ ret' = << [pageNum |-> bestPageNum,
                ocr |-> IF bestOcr = <<>> THEN <<>> ELSE bestOcr[1]] >>
  /\ pc' = "found"
  /\ UNCHANGED <<extractVars, convertVars, replaceVars, detectVars, pages, scanIdx, bestPageNum, bestOcr, bestScore, ocrCalls>>

NextFind == FindSinglePage \/ FindBegin \/ ScanPage \/ ScanEnd

SpecFind == InitFind /\ [][NextFind]_vars

\* ========================================================================
\* Properties of findReceiptPage
\* ========================================================================

\* the order 1, N, 2, 3, ..., N-1
StatedOrder(n) == [i \in 1..n |-> IF i = 1 THEN 1 ELSE IF i = 2 THEN n ELSE i - 1]

IsPrefix(s, t) == Len(s) <= Len(t) /\ s = SubSeq(t, 1, Len(s))

Score(p) == scoreReceiptPage(pages[p])

Returned == pc = "found" /\ ret # <<>>

MultiPage == pc \in {"scan", "found"} /\ Len(pages) >= 2

\* C6: the pages of a document of N >= 2 pages are evaluated in the order
\* 1, N, 2, ..., N-1, each at most once; a page scoring >= 50 is returned at
\* once and no later page is evaluated.
C6_ScanOrderAndEarlyExit ==
  MultiPage =>
    /\ IsPrefix(ocrCalls, StatedOrder(Len(pages)))
    /\ \A i, j \in DOMAIN ocrCalls : i # j => ocrCalls[i] # ocrCalls[j]
    /\ \A i \in DOMAIN ocrCalls :
         Score(ocrCalls[i]) >= 50 =>
           /\ i = Len(ocrCalls)
           /\ Returned
           /\ ret[1].pageNum = ocrCalls[i]

\* C6 witness: five pages, the scan stopped at page 2 after 1 and 5 while
\* page 3 would also have scored >= 50.
C6_Witness ==
  /\ Returned
  /\ Len(pages) = 5
  /\ ocrCalls = <<1, 5, 2>>
  /\ Score(2) >= 50
  /\ Score(3) >= 50
  /\ ret[1].pageNum = 2

HasLabel(p) == findReceiptLabel(pages[p].words).found

LabelPages == { p \in DOMAIN pages : HasLabel(p) }

PageText(p) == Join([i \in DOMAIN pages[p].words |-> pages[p].words[i].text])

\* the label page is short enough for the label to decide: at most 200
\* words, or at most 300 words with both the era name and the agent title
LabelDecides(p) ==
  \/ Len(pages[p].words) + pages[p].nFiller <= 200
  \/ /\ Len(pages[p].words) + pages[p].nFiller <= 300
     /\ Includes(PageText(p), <<"rei", "wa">>)
     /\ Includes(PageText(p), <<"dai", "ri", "nin">>)

C8_BestPageWhenNoneConfident ==
  (Returned /\ Len(pages) >= 2 /\ \A p \in DOMAIN pages : Score(p) < 50) =>
    /\ Len(ocrCalls) = Len(pages)
    /\ \A p \in DOMAIN pages :
         Cardinality({ i \in DOMAIN ocrCalls : ocrCalls[i] = p }) = 1
    /\ ret[1].pageNum \in DOMAIN pages
    /\ \A p \in DOMAIN pages : Score(ret[1].pageNum) >= Score(p)
    /\ ret[1].ocr = pages[ret[1].pageNum]

\* C8 witness: no confident page, the best page is neither the first nor
\* the last, and the pages do not all score the same.
C8_Witness ==
  /\ Returned
  /\ Len(pages) >= 4
  /\ \A p \in DOMAIN pages : Score(p) < 50
  /\ ret[1].pageNum \notin {1, Len(pages)}
  /\ \E p \in DOMAIN pages : Score(p) < 0
  /\ \E p \in DOMAIN pages : Score(p) > 0 /\ Score(p) < Score(ret[1].pageNum)

\* ========================================================================
\* px2pdf
\*
\* Coordinates in points are fractions; a fraction is kept as numerator n
\* over denominator d. This is the value of the expressions of px2pdf before
\* rounding, used for pages whose size is a whole number of points; the
\* rounding of the engine is followed by px2pdfDouble.
\* ========================================================================
Rat(num, den) == [n |-> num, d |-> den]

\* x = px * pgW / imgW,  y = pgH - py * pgH / imgH
px2pdf(px, py, imgW, imgH, pgW, pgH) ==
  [x |-> Rat(px * pgW, imgW), y |-> Rat(pgH * imgH - py * pgH, imgH)]

\* ========================================================================
\* detectPositions
\* ========================================================================
LabelMargin == 50
LineTol == 60
GyouGap == 20
AgentGap == 10
DateAbovePct == 6
DateLeftPct == 5
MidPct == 50
AgentDepthPct == 85
AgentLeftPct == 20
DateBoxW == 200
AgentBoxW == 300
EstBoxH == 40

\* Math.round(num / den) for den > 0: the nearest integer, halves upwards
RoundDiv(num, den) == (2 * num + den) \div (2 * den)

findReceiptSectionStart(ws, imgH) ==
  LET receiptLabel == findReceiptLabel(ws)
  IN  IF receiptLabel.found /\ receiptLabel.y # NullY
        THEN Max(0, receiptLabel.y - LabelMargin)
        ELSE 0

\* the three callbacks passed to reduce: a.x1 > b.x1, a.y1 < b.y1, a.y1 > b.y1
RightOf == "a.x1 > b.x1"
Above == "a.y1 < b.y1"
Below == "a.y1 > b.y1"

KeepA(test, a, b) ==
  CASE test = RightOf -> a.x1 > b.x1
    [] test = Above -> a.y1 < b.y1
    [] test = Below -> a.y1 > b.y1

\* array.reduce((a, b) => test ? a : b) over word indices
RECURSIVE ReduceFrom(_, _, _, _)
ReduceFrom(ws, idxs, test, acc) ==
  IF idxs = <<>> THEN acc
  ELSE ReduceFrom(ws, Tail(idxs), test,
                  IF KeepA(test, ws[acc], ws[Head(idxs)]) THEN acc ELSE Head(idxs))

Reduce(ws, idxs, test) == ReduceFrom(ws, Tail(idxs), test, Head(idxs))

\* array.sort((a, b) => a.x1 - b.x1) over word indices (a stable sort)
RECURSIVE InsertByX1(_, _, _)
InsertByX1(ws, sorted, i) ==
  IF sorted = <<>> THEN <<i>>
  ELSE IF ws[Head(sorted)].x1 <= ws[i].x1
    THEN <<Head(sorted)>> \o InsertByX1(ws, Tail(sorted), i)
    ELSE <<i>> \o sorted

RECURSIVE SortByX1From(_, _, _)
SortByX1From(ws, idxs, sorted) ==
  IF idxs = <<>> THEN sorted
  ELSE SortByX1From(ws, Tail(idxs), InsertByX1(ws, sorted, Head(idxs)))

SortByX1(ws, idxs) == SortByX1From(ws, idxs, <<>>)

\* rw = words.filter(w => w.y1 >= receiptStartY), as indices into words
receiptWords(ws, receiptStartY) ==
  LET InSection(i) == ws[i].y1 >= receiptStartY
  IN  SelectSeq([i \in 1..Len(ws) |-> i], InSection)

\* faulty variant: any word containing the target character counts as the target
isGyou_includes(w) == Includes(w.text, <<"gyo">>)

\* w.text === '行'
isGyou(w) == w.text = <<"gyo">>

\* w.text.includes('弁護') || w.text.includes('護士')
isBengo(w) == Includes(w.text, <<"ben", "go">>) \/ Includes(w.text, <<"go", "shi">>)

\* w.text.includes('代理人') || w.text.includes('代理')
isAgent(w) == Includes(w.text, <<"dai", "ri", "nin">>) \/ Includes(w.text, <<"dai", "ri">>)

\* w.text.includes('被告') || w.text.includes('原告')
isParty(w) == Includes(w.text, <<"hi", "koku">>) \/ Includes(w.text, <<"gen", "koku">>)

\* w.text === '人' || w.text.endsWith('人')
isNin(w) == w.text = <<"nin">> \/ (Len(w.text) > 0 /\ w.text[Len(w.text)] = "nin")

\* faulty variant: a word with a year or month marker counts as an era word
isReiwa_orDateish(w) ==
  \/ (Len(w.text) > 0 /\ w.text[1] = "rei")
  \/ Includes(w.text, <<"nen">>)
  \/ Includes(w.text, <<"gatsu">>)

\* w.text === '令' || w.text === '令和' || w.text.startsWith('令')
isReiwa(w) ==
  \/ w.text = <<"rei">>
  \/ w.text = <<"rei", "wa">>
  \/ (Len(w.text) > 0 /\ w.text[1] = "rei")

\* w.text.includes('年') || w.text.includes('月')
isDateish(w) == Includes(w.text, <<"nen">>) \/ Includes(w.text, <<"gatsu">>)

\* 1. the strike target: empty sequence (null) or the index of the word
gyouWordOf(ws, rw) ==
  LET G(i) == isGyou(ws[i])
      allGyouWords == SelectSeq(rw, G)
      B(i) == isBengo(ws[i])
      bengo == SelectSeq(rw, B)
      OnBengoLine(i) == Abs(ws[i].y1 - ws[Head(bengo)].y1) < LineTol
      gyouInBengoLine == IF bengo = <<>> THEN <<>> ELSE SelectSeq(allGyouWords, OnBengoLine)
  IN  IF allGyouWords = <<>> THEN <<>>
      ELSE IF gyouInBengoLine # <<>> THEN << Reduce(ws, gyouInBengoLine, RightOf) >>
      ELSE << Reduce(ws, allGyouWords, Above) >>

\* faulty variant: the looser search is not confined to the lower half
agentWordOf_anyParty(ws, rw, receiptStartY, imgH) ==
  LET A(i) == isAgent(ws[i])
      agentCandidates == SelectSeq(rw, A)
      P(i) == isParty(ws[i])
      agentCandidates2 == SelectSeq(rw, P)
  IN  IF agentCandidates # <<>> THEN << Reduce(ws, agentCandidates, Below) >>
      ELSE IF agentCandidates2 # <<>> THEN << Reduce(ws, agentCandidates2, Below) >>
      ELSE <<>>

\* 2. the signature line: empty sequence (null) or the index of the word
agentWordOf(ws, rw, receiptStartY, imgH) ==
  LET A(i) == isAgent(ws[i])
      agentCandidates == SelectSeq(rw, A)
      \* w.y1 > midY with midY = receiptStartY + (imgH - receiptStartY) * 0.5
      P(i) == /\ 100 * ws[i].y1 > 100 * receiptStartY + MidPct * (imgH - receiptStartY)
              /\ isParty(ws[i])
      agentCandidates2 == SelectSeq(rw, P)
  IN  IF agentCandidates # <<>> THEN << Reduce(ws, agentCandidates, Below) >>
      ELSE IF agentCandidates2 # <<>> THEN << Reduce(ws, agentCandidates2, Below) >>
      ELSE <<>>

\* the word list after agentWord._titleEndX and agentWord._lineStartX are set
markAgentRow(ws, rw, agent) ==
  IF agent = <<>> THEN ws
  ELSE LET a == agent[1]
           OnRow(i) == Abs(ws[i].y1 - ws[a].y1) < LineTol
           agentRowWords == SortByX1(ws, SelectSeq(rw, OnRow))
           N(i) == isNin(ws[i])
           ninWord == SelectSeq(agentRowWords, N)
           leftMost == agentRowWords
       IN  [ws EXCEPT
              ![a].titleEndX =
                 IF ninWord # <<>> THEN << ws[Head(ninWord)].x2 >> ELSE @,
              ![a].lineStartX =
                 IF leftMost # <<>> /\ ws[Head(leftMost)].x1 < ws[a].x1
                   THEN << ws[Head(leftMost)].x1 >> ELSE @]

\* 3. the date blank: empty sequence (null) or the index of the word
dateWordOf(ws, rw, gyou, agent, receiptStartY, imgH) ==
  LET searchTopY == IF gyou # <<>> THEN ws[gyou[1]].y1 + GyouGap ELSE receiptStartY
      searchBottomY == IF agent # <<>> THEN ws[agent[1]].y1 - AgentGap ELSE imgH
      InBand(i) == ws[i].y1 > searchTopY /\ ws[i].y1 < searchBottomY
      R(i) == InBand(i) /\ isReiwa(ws[i])
      reiwaWords == SelectSeq(rw, R)
      D(i) == InBand(i) /\ isDateish(ws[i])
      dateish == SelectSeq(rw, D)
  IN  IF reiwaWords # <<>> THEN << Reduce(ws, reiwaWords, Above) >>
      ELSE IF dateish # <<>> THEN << Reduce(ws, dateish, Above) >>
      ELSE <<>>

\* an anchor taken from word i of the list; idx 0 marks a synthetic box
WordAnchor(ws, i) ==
  [x1 |-> ws[i].x1, y1 |-> ws[i].y1, x2 |-> ws[i].x2, y2 |-> ws[i].y2,
   text |-> ws[i].text, estimated |-> FALSE, idx |-> i,
   titleEndX |-> ws[i].titleEndX]

Synthetic(x, y, w, t) ==
  [x1 |-> x, y1 |-> y, x2 |-> x + w, y2 |-> y + EstBoxH,
   text |-> t, estimated |-> TRUE, idx |-> 0, titleEndX |-> <<>>]

\* faulty variant: the date is only estimated when a signature line was found
estimateDate_needsAgent(agent, receiptStartY, imgW, imgH) ==
  IF agent # <<>>
    THEN << Synthetic(RoundDiv(DateLeftPct * imgW, 100),
                      RoundDiv(100 * agent[1].y1 - DateAbovePct * imgH, 100),
                      DateBoxW, <<"rei", "wa", "estimated">>) >>
    ELSE <<>>

\* the fallback for a missing date: above the signature line when there is
\* one, otherwise in the middle of the receipt section
estimateDate(agent, receiptStartY, imgW, imgH) ==
  IF agent # <<>>
    THEN << Synthetic(RoundDiv(DateLeftPct * imgW, 100),
                      RoundDiv(100 * agent[1].y1 - DateAbovePct * imgH, 100),
                      DateBoxW, <<"rei", "wa", "estimated">>) >>
    ELSE << Synthetic(RoundDiv(DateLeftPct * imgW, 100),
                      RoundDiv(100 * receiptStartY + MidPct * (imgH - receiptStartY), 100),
                      DateBoxW, <<"rei", "wa", "estimated">>) >>

\* the fallback for a missing signature line: near the bottom of the section
estimateAgent(receiptStartY, imgW, imgH) ==
  << Synthetic(RoundDiv(AgentLeftPct * imgW, 100),
               RoundDiv(100 * receiptStartY + AgentDepthPct * (imgH - receiptStartY), 100),
               AgentBoxW, <<"dai", "ri", "nin", "estimated">>) >>

\* the local variables of detectPositions when it reaches the conversion
detectAnchors(ws, imgW, imgH) ==
  LET receiptStartY == findReceiptSectionStart(ws, imgH)
      rw == receiptWords(ws, receiptStartY)
      gyou == gyouWordOf(ws, rw)
      agent == agentWordOf(ws, rw, receiptStartY, imgH)
      marked == markAgentRow(ws, rw, agent)
      date == dateWordOf(marked, rw, gyou, agent, receiptStartY, imgH)
      agentFound == IF agent # <<>> THEN << WordAnchor(marked, agent[1]) >> ELSE <<>>
      dateWord == IF date # <<>> THEN << WordAnchor(marked, date[1]) >>
                  ELSE estimateDate(agentFound, receiptStartY, imgW, imgH)
      agentWord == IF agentFound # <<>> THEN agentFound
                   ELSE estimateAgent(receiptStartY, imgW, imgH)
  IN  [receiptStartY |-> receiptStartY,
       words |-> marked,
       gyouWord |-> IF gyou # <<>> THEN << WordAnchor(marked, gyou[1]) >> ELSE <<>>,
       dateWord |-> dateWord,
       agentWord |-> agentWord]

\* the conversion to PDF coordinates and the returned object
positionsOf(a, imgW, imgH, pgW, pgH) ==
  LET g == a.gyouWord[1]
      dw == a.dateWord[1]
      aw == a.agentWord[1]
      datePdfTop == px2pdf(dw.x1, dw.y1, imgW, imgH, pgW, pgH)
      datePdfBottom == px2pdf(dw.x1, dw.y2, imgW, imgH, pgW, pgH)
      agentPdfTop == px2pdf(aw.x1, aw.y1, imgW, imgH, pgW, pgH)
      agentPdfBottom == px2pdf(aw.x1, aw.y2, imgW, imgH, pgW, pgH)
  IN  [gyou |-> IF a.gyouWord = <<>> THEN <<>>
                ELSE << [left |-> px2pdf(g.x1, g.y2, imgW, imgH, pgW, pgH),
                         right |-> px2pdf(g.x2, g.y2, imgW, imgH, pgW, pgH),
                         top |-> px2pdf(g.x1, g.y1, imgW, imgH, pgW, pgH).y,
                         width |-> Rat((g.x2 - g.x1) * pgW, imgW),
                         height |-> Rat((g.y2 - g.y1) * pgH, imgH),
                         pxY1 |-> g.y1] >>,
       date |-> [x |-> datePdfBottom.x, yTop |-> datePdfTop.y, yBase |-> datePdfBottom.y],
       agent |-> [x |-> agentPdfBottom.x, yTop |-> agentPdfTop.y, yBase |-> agentPdfBottom.y],
       agentTitleEndX |->
         IF aw.titleEndX # <<>> /\ aw.titleEndX[1] # 0
           THEN << Rat(aw.titleEndX[1] * pgW, imgW) >> ELSE <<>>,
       agentRowY |-> agentPdfBottom.y,
       imgW |-> imgW, imgH |-> imgH]

\* ------------------------------------------------------------------------
\* Inputs of detectPositions
\* ------------------------------------------------------------------------
MaxWords == 3

PgWidth == 595
PgHeight == 842

\* the words an OCR word list is made of
WordCatalogue ==
  { Word(<<"ju", "ryo", "sho">>, 500, 300),
    Word(<<"gyo">>, 700, 100),
    Word(<<"gyo">>, 300, 400),
    Word(<<"gyo">>, 900, 440),
    Word(<<"ben", "go", "shi">>, 500, 430),
    Word(<<"dono">>, 900, 400),
    Word(<<"gin", "gyo">>, 300, 500),
    Word(<<"rei", "wa">>, 200, 800),
    Word(<<"nen", "gatsu">>, 400, 1600),
    Word(<<"nen">>, 400, 350),
    Word(<<"hi", "koku", "dai", "ri", "nin">>, 300, 1400),
    Word(<<"dai", "ri">>, 600, 320),
    Word(<<"hi", "koku">>, 200, 1500),
    Word(<<"gen", "koku">>, 200, 600),
    Word(<<"nin">>, 100, 1410) }

\* page images: A4 rendered at 150 and at 300 dpi
ImgSizes == { [w |-> ImgWidth, h |-> ImgHeight], [w |-> 2 * ImgWidth, h |-> 2 * ImgHeight] }

WordLists == UNION { [1..n -> WordCatalogue] : n \in 0..MaxWords }

InitDetect ==
  /\ pc = "detect"
  /\ IdleReplace
  /\ IdleFind
  /\ IdleExtract
  /\ IdleConvert
  /\ words \in WordLists
  /\ img \in ImgSizes
  /\ pg = [w |-> PgWidth, h |-> PgHeight]
  /\ anchors = <<>>
  /\ pos = <<>>
  /\ drawn = <<>>

\* pos = detectPositions(words, imgWidth, imgHeight, pgW, pgH); reading a
\* coordinate of a missing date or signature anchor throws a TypeError
Detect ==
  /\ pc = "detect"
  /\ LET a == detectAnchors(words, img.w, img.h)
     IN  /\ words' = a.words
         /\ anchors' = << [receiptStartY |-> a.receiptStartY, gyouWord |-> a.gyouWord,
                            dateWord |-> a.dateWord, agentWord |-> a.agentWord] >>
         /\ IF a.dateWord = <<>> \/ a.agentWord = <<>>
              THEN /\ pos' = <<>>
                   /\ pc' = "TypeError"
              ELSE /\ pos' = << positionsOf(a, img.w, img.h, pg.w, pg.h) >>
                   /\ pc' = "detected"
  /\ UNCHANGED <<extractVars, convertVars, replaceVars, findVars, img, pg, drawn>>

\* generateReceipt after the detection: 1. strike-through and honorific,
\* only if (pos.gyou); 2. the date; 3. the signature
Annotate ==
  /\ pc = "detected"
  /\ drawn' = (IF pos[1].gyou # <<>> THEN <<"strike", "sensei">> ELSE <<>>)
                \o <<"date", "signature">>
  /\ pc' = "annotated"
  /\ UNCHANGED <<extractVars, convertVars, replaceVars, findVars, words, img, pg, anchors, pos>>

NextDetect == Detect \/ Annotate

SpecDetect == InitDetect /\ [][NextDetect]_vars

\* ========================================================================
\* Properties of detectPositions
\* ========================================================================
Detected == pc \in {"detected", "annotated"}

\* words of the receipt sub-region: at or below the section start
InSubRegion(i) == words[i].y1 >= anchors[1].receiptStartY

ExactTargets == { i \in DOMAIN words : InSubRegion(i) /\ words[i].text = <<"gyo">> }

\* words that look like the target without being it
NearMisses ==
  { i \in DOMAIN words :
      /\ InSubRegion(i)
      /\ words[i].text # <<"gyo">>
      /\ \/ words[i].text \in { <<"dono">>, <<"ate">> }
         \/ Includes(words[i].text, <<"gyo">>) }

\* C9: without a word of the sub-region whose text is exactly the target
\* word, the strike target is null, whatever near-miss words there are, and
\* the strike-through / honorific step is skipped.
C9_NoExactTargetNoStrike ==
  (Detected /\ ExactTargets = {}) =>
    /\ anchors[1].gyouWord = <<>>
    /\ pos[1].gyou = <<>>
    /\ pc = "annotated" =>
         \A k \in DOMAIN drawn : drawn[k] \notin {"strike", "sensei"}

\* C9 witness: two near-miss words in the sub-region and nothing struck,
\* while date and signature were written.
C9_Witness ==
  /\ pc = "annotated"
  /\ ExactTargets = {}
  /\ Cardinality(NearMisses) >= 2
  /\ \E i \in NearMisses : Includes(words[i].text, <<"gyo">>)
  /\ pos[1].gyou = <<>>
  /\ drawn = <<"date", "signature">>

\* an anchor is either the box of an input word or a synthetic box flagged
\* estimated
FromWordOrEstimated(a) ==
  \/ /\ a.estimated
     /\ a.idx = 0
  \/ /\ ~a.estimated
     /\ a.idx \in DOMAIN words
     /\ a.x1 = words[a.idx].x1 /\ a.y1 = words[a.idx].y1
     /\ a.x2 = words[a.idx].x2 /\ a.y2 = words[a.idx].y2
     /\ a.text = words[a.idx].text

IsPoint(r) == r.n \in Int /\ r.d \in Int /\ r.d > 0

\* C10: for every word list and positive image size detectPositions
\* returns a date position and a signature position, each from an input
\* word or from a synthetic box flagged estimated; it never throws.
C10_DateAndSignatureAlwaysReturned ==
  /\ pc # "TypeError"
  /\ Detected =>
       /\ pos # <<>>
       /\ anchors[1].dateWord # <<>>
       /\ anchors[1].agentWord # <<>>
       /\ FromWordOrEstimated(anchors[1].dateWord[1])
       /\ FromWordOrEstimated(anchors[1].agentWord[1])
       /\ pos[1].date.x = Rat(anchors[1].dateWord[1].x1 * pg.w, img.w)
       /\ pos[1].agent.x = Rat(anchors[1].agentWord[1].x1 * pg.w, img.w)
       /\ \A r \in { pos[1].date.x, pos[1].date.yTop, pos[1].date.yBase,
                     pos[1].agent.x, pos[1].agent.yTop, pos[1].agent.yBase } :
            IsPoint(r)

\* C10 witness: the empty word list, both anchors estimated.
C10_Witness ==
  /\ Detected
  /\ words = <<>>
  /\ anchors[1].dateWord[1].estimated
  /\ anchors[1].agentWord[1].estimated
  /\ pos[1].date.yTop.n > pos[1].agent.yTop.n


\* ========================================================================
\* extractInfoFromText
\*
\* The text is a sequence of UTF-16 code units.  A regular expression of
\* the source is written as a tree of nodes and matched the way the
\* JavaScript engine matches it: leftmost first, alternatives in order,
\* greedy quantifiers longest first, lazy ones shortest first.
\* ========================================================================
Inf == 100000

\* a class of code units: a set of ranges <<lo, hi>>, possibly negated
Chr(c) == [op |-> "set", s |-> {<<c, c>>}, neg |-> FALSE]
OneOf(S) == [op |-> "set", s |-> S, neg |-> FALSE]
NoneOf(S) == [op |-> "set", s |-> S, neg |-> TRUE]
Chars(cs) == { <<cs[i], cs[i]>> : i \in 1..Len(cs) }
Cat(rs) == [op |-> "cat", rs |-> rs]
Alt(rs) == [op |-> "alt", rs |-> rs]
\* a literal string, and an alternation of literal strings
Str(cs) == [op |-> "str", cs |-> cs]
AnyOfStr(ss) == [op |-> "strs", ss |-> ss]
Rep(r, min, max) == [op |-> "rep", r |-> r, min |-> min, max |-> max, lazy |-> FALSE]
RepLazy(r, min, max) == [op |-> "rep", r |-> r, min |-> min, max |-> max, lazy |-> TRUE]
Star(r) == Rep(r, 0, Inf)
Plus(r) == Rep(r, 1, Inf)
Opt(r) == Rep(r, 0, 1)
Grp(n, r) == [op |-> "grp", n |-> n, r |-> r]
NotAhead(r) == [op |-> "nla", r |-> r]
Bos == [op |-> "bos"]
Eos == [op |-> "eos"]

\* \s : white space and line terminators
WsRanges == { <<9, 13>>, <<32, 32>>, <<160, 160>>, <<5760, 5760>>, <<8192, 8202>>,
              <<8232, 8233>>, <<8239, 8239>>, <<8287, 8287>>, <<12288, 12288>>,
              <<65279, 65279>> }
\* \d
DigitRanges == { <<48, 57>> }
\* ０-９
FwDigitRanges == { <<65296, 65305>> }
\* 一-鿿
KanjiRanges == { <<19968, 40959>> }
\* ぀-ゟ゠-ヿ
KanaRanges == { <<12352, 12447>>, <<12448, 12543>> }
LF == 10
CR == 13

Ws == OneOf(WsRanges)
WsStar == Star(Ws)
Digit == OneOf(DigitRanges)
Kanji == OneOf(KanjiRanges)
\* [\s\S]
AnyChar == NoneOf({})
\* [^\n]
NotLF == NoneOf({<<LF, LF>>})
\* .  (no line terminator)
Dot == NoneOf({<<LF, LF>>, <<CR, CR>>, <<8232, 8233>>})

InRanges(c, S) == \E r \in S : r[1] <= c /\ c <= r[2]
IsWs(c) == InRanges(c, WsRanges)

NoMatch == [ok |-> FALSE, s |-> 0, e |-> 0, g |-> <<>>]

\* number of code units from offset p on that are in the class n, at most cap
RunLength(t, p, n, cap) ==
  LET top == Min(cap, Len(t) - p)
      bad == { i \in 1..top : InRanges(t[p + i], n.s) = n.neg }
  IN  IF bad = {} THEN top ELSE SetMin(bad) - 1

\* the continuation k (a sequence of nodes) matched against t from offset p
\* with the captures g so far: the first match in backtracking order
\* the repetition n with one iteration less to go
Again(n) ==
  [n EXCEPT !.min = Max(0, n.min - 1), !.max = IF n.max = Inf THEN Inf ELSE n.max - 1]

\* the repetition n: more is the match with one more iteration, stop the one without
MatchRep(n, more, stop) ==
  IF n.max = 0 THEN stop
  ELSE IF n.min > 0 THEN more
  ELSE IF n.lazy THEN (IF stop.ok THEN stop ELSE more)
  ELSE (IF more.ok THEN more ELSE stop)

\* r when it is a match, otherwise next
OrElse(r, next) == IF r.ok THEN r ELSE next

RECURSIVE MatchAt(_, _, _, _)
RECURSIVE MatchRun(_, _, _, _, _, _, _)
RECURSIVE MatchAlt(_, _, _, _, _, _)
MatchAt(t, k, p, g) ==
  IF k = <<>> THEN [ok |-> TRUE, s |-> 0, e |-> p, g |-> g]
  ELSE
    LET n == Head(k)
        rest == Tail(k)
    IN  CASE n.op = "set" ->
               IF p < Len(t) /\ (InRanges(t[p + 1], n.s) # n.neg)
                 THEN MatchAt(t, rest, p + 1, g)
                 ELSE NoMatch
          [] n.op = "str" ->
               IF OccursAt(t, n.cs, p) THEN MatchAt(t, rest, p + Len(n.cs), g) ELSE NoMatch
          [] n.op = "strs" ->
               LET Here(i) == OccursAt(t, n.ss[i], p)
                   here == SelectSeq([i \in 1..Len(n.ss) |-> i], Here)
               IN  MatchAlt(t, [i \in 1..Len(n.ss) |-> Str(n.ss[i])], here, rest, p, g)
          [] n.op = "cat" -> MatchAt(t, n.rs \o rest, p, g)
          [] n.op = "alt" ->
               \* an alternative that does not match on its own is skipped
               LET Alone(i) == MatchAt(t, <<n.rs[i]>>, p, g).ok
               IN  MatchAlt(t, n.rs, SelectSeq([i \in 1..Len(n.rs) |-> i], Alone), rest, p, g)
          [] n.op = "rep" /\ n.r.op = "set" ->
               \* a quantified class: the run of code units of the class,
               \* given up one by one (greedy) or taken one by one (lazy)
               LET run == RunLength(t, p, n.r, n.max)
               IN  IF run < n.min THEN NoMatch
                   ELSE IF n.lazy THEN MatchRun(t, rest, p, g, n.min, run, 1)
                   ELSE MatchRun(t, rest, p, g, run, n.min, 0 - 1)
          [] n.op = "rep" /\ n.r.op # "set" ->
               MatchRep(n, MatchAt(t, <<n.r, [op |-> "adv", p |-> p, min |-> n.min], Again(n)>> \o rest, p, g),
                        MatchAt(t, rest, p, g))
          \* an iteration beyond the minimum that matched the empty string is rejected
          [] n.op = "adv" ->
               IF n.min = 0 /\ p = n.p THEN NoMatch ELSE MatchAt(t, rest, p, g)
          [] n.op = "grp" -> MatchAt(t, <<n.r, [op |-> "end", n |-> n.n, s |-> p]>> \o rest, p, g)
          [] n.op = "end" -> MatchAt(t, rest, p, [g EXCEPT ![n.n] = <<n.s, p>>])
          [] n.op = "nla" ->
               IF MatchAt(t, <<n.r>>, p, g).ok THEN NoMatch ELSE MatchAt(t, rest, p, g)
          [] n.op = "bos" -> IF p = 0 THEN MatchAt(t, rest, p, g) ELSE NoMatch
          [] n.op = "eos" -> IF p = Len(t) THEN MatchAt(t, rest, p, g) ELSE NoMatch

\* the rest matched after j code units of a run, then j + step, ..., up to last
MatchRun(t, rest, p, g, j, last, step) ==
  OrElse(MatchAt(t, rest, p + j, g),
         IF j = last THEN NoMatch ELSE MatchRun(t, rest, p, g, j + step, last, step))

\* the alternatives rs[is[1]], rs[is[2]], ... tried in order
MatchAlt(t, rs, is, rest, p, g) ==
  IF is = <<>> THEN NoMatch
  ELSE OrElse(MatchAt(t, <<rs[Head(is)]>> \o rest, p, g), MatchAlt(t, rs, Tail(is), rest, p, g))

\* captures of a regular expression with ng groups, all unset
NoGroups(ng) == [i \in 1..ng |-> <<0 - 1, 0 - 1>>]

\* the match that starts at the offset first
MatchFrom(t, re, ng, first) == [MatchAt(t, <<re>>, first, NoGroups(ng)) EXCEPT !.s = first]

\* the match at the least of the offsets where there is one
MatchFirst(t, re, ng, starts) ==
  IF starts = {} THEN NoMatch ELSE MatchFrom(t, re, ng, SetMin(starts))

\* re.exec(t) with lastIndex = from: the leftmost match at or after from
ExecFrom(t, re, ng, from) ==
  MatchFirst(t, re, ng, { p \in from..Len(t) : MatchAt(t, <<re>>, p, NoGroups(ng)).ok })

\* t.match(re) for a regular expression without the g flag
Match(t, re, ng) == ExecFrom(t, re, ng, 0)

\* re.test(t)
Test(t, re) == Match(t, re, 0).ok

\* while ((m = re.exec(t)) !== null): all the matches of a g regular expression
RECURSIVE ExecAllFrom(_, _, _, _)
RECURSIVE ExecAllAfter(_, _, _, _)
ExecAllFrom(t, re, ng, from) == ExecAllAfter(t, re, ng, ExecFrom(t, re, ng, from))

\* the match r and the matches after it; lastIndex moves on after an empty match
ExecAllAfter(t, re, ng, r) ==
  IF ~r.ok THEN <<>>
  ELSE <<r>> \o ExecAllFrom(t, re, ng, IF r.e = r.s THEN r.e + 1 ELSE r.e)

ExecAll(t, re, ng) == ExecAllFrom(t, re, ng, 0)

\* m[0] and m[i]
Matched(t, m) == SubSeq(t, m.s + 1, m.e)
Group(t, m, i) == SubSeq(t, m.g[i][1] + 1, m.g[i][2])
HasGroup(m, i) == m.g[i][1] >= 0

\* s.replace(/\s+/g, '')
StripWs(s) ==
  LET NotWs(c) == ~IsWs(c)
  IN  SelectSeq(s, NotWs)

\* text.replace(/\r\n/g, '\n').replace(/\r/g, '\n')
normalizeLines(t) ==
  LET Keep(i) == ~(t[i] = CR /\ i < Len(t) /\ t[i + 1] = LF)
      kept == SelectSeq([i \in 1..Len(t) |-> i], Keep)
  IN  [j \in 1..Len(kept) |-> IF t[kept[j]] = CR THEN LF ELSE t[kept[j]]]

\* cityNames
CityNames ==
  << <<26481, 20140>>, <<22823, 38442>>, <<21517, 21476, 23627>>, <<24195, 23798>>, <<31119, 23713>>, <<20185, 21488>>,  \* 東京 大阪 名古屋 広島 福岡 仙台
     <<26413, 24140>>, <<39640, 26494>>, <<20140, 37117>>, <<31070, 25144>>, <<27178, 27996>>, <<12373, 12356, 12383, 12414>>,  \* 札幌 高松 京都 神戸 横浜 さいたま
     <<21315, 33865>>, <<23665, 21475>>, <<23713, 23665>>, <<31119, 23665>>, <<26494, 23665>>, <<39640, 30693>>,  \* 千葉 山口 岡山 福山 松山 高知
     <<37027, 35207>>, <<38263, 23822>>, <<29066, 26412>>, <<40575, 20816, 23798>>, <<22823, 20998>>, <<23470, 23822>>,  \* 那覇 長崎 熊本 鹿児島 大分 宮崎
     <<20304, 36032>>, <<31179, 30000>>, <<38738, 26862>>, <<30427, 23713>>, <<23665, 24418>>, <<31119, 23798>>,  \* 佐賀 秋田 青森 盛岡 山形 福島
     <<27700, 25144>>, <<23431, 37117, 23470>>, <<21069, 27211>>, <<30002, 24220>>, <<38263, 37326>>, <<26032, 28511>>,  \* 水戸 宇都宮 前橋 甲府 長野 新潟
     <<23500, 23665>>, <<37329, 27810>>, <<31119, 20117>>, <<27941>>, <<22823, 27941>>, <<22856, 33391>>,  \* 富山 金沢 福井 津 大津 奈良
     <<21644, 27468, 23665>>, <<40165, 21462>>, <<26494, 27743>>, <<24499, 23798>>, <<26093, 24029>>, <<37351, 36335>>,  \* 和歌山 鳥取 松江 徳島 旭川 釧路
     <<20989, 39208>> >>  \* 函館

\* COURT_FAX_MAP: the pairs <<court, fax number>>
COURT_FAX_MAP ==
  << <<<<31070, 25144, 22320, 26041, 35009, 21028, 25152, 23612, 23822, 25903, 37096>>, <<48, 54, 45, 54, 52, 51, 56, 45, 49, 55, 49, 48>>>>,  \* 神戸地方裁判所尼崎支部 06-6438-1710
     <<<<22823, 38442, 22320, 26041, 35009, 21028, 25152>>, <<48, 54, 45, 54, 51, 49, 54, 45, 50, 56, 48, 52>>>>,  \* 大阪地方裁判所 06-6316-2804
     <<<<22823, 38442, 39640, 31561, 35009, 21028, 25152>>, <<48, 54, 45, 54, 51, 49, 54, 45, 50, 56, 48, 52>>>>,  \* 大阪高等裁判所 06-6316-2804
     <<<<26481, 20140, 22320, 26041, 35009, 21028, 25152>>, <<48, 51, 45, 51, 53, 56, 48, 45, 53, 54, 49, 49>>>>,  \* 東京地方裁判所 03-3580-5611
     <<<<26481, 20140, 39640, 31561, 35009, 21028, 25152>>, <<48, 51, 45, 51, 53, 56, 48, 45, 53, 54, 49, 49>>>>,  \* 東京高等裁判所 03-3580-5611
     <<<<24195, 23798, 22320, 26041, 35009, 21028, 25152>>, <<48, 56, 50, 45, 50, 50, 56, 45, 48, 49, 57, 55>>>>,  \* 広島地方裁判所 082-228-0197
     <<<<24195, 23798, 39640, 31561, 35009, 21028, 25152>>, <<48, 56, 50, 45, 50, 50, 56, 45, 48, 49, 57, 55>>>>,  \* 広島高等裁判所 082-228-0197
     <<<<24195, 23798, 22320, 26041, 35009, 21028, 25152, 31119, 23665, 25903, 37096>>, <<48, 56, 52, 45, 57, 50, 51, 45, 50, 56, 57, 55>>>>,  \* 広島地方裁判所福山支部 084-923-2897
     <<<<23713, 23665, 22320, 26041, 35009, 21028, 25152>>, <<48, 56, 54, 45, 50, 50, 50, 45, 54, 57, 54, 49>>>>,  \* 岡山地方裁判所 086-222-6961
     <<<<31119, 23713, 22320, 26041, 35009, 21028, 25152>>, <<48, 57, 50, 45, 55, 56, 49, 45, 51, 49, 52, 49>>>>,  \* 福岡地方裁判所 092-781-3141
     <<<<21517, 21476, 23627, 22320, 26041, 35009, 21028, 25152>>, <<48, 53, 50, 45, 50, 48, 52, 45, 55, 55, 56, 48>>>>,  \* 名古屋地方裁判所 052-204-7780
     <<<<20140, 37117, 22320, 26041, 35009, 21028, 25152>>, <<48, 55, 53, 45, 50, 49, 49, 45, 52, 50, 50, 54>>>>,  \* 京都地方裁判所 075-211-4226
     <<<<31070, 25144, 22320, 26041, 35009, 21028, 25152>>, <<48, 55, 56, 45, 51, 54, 55, 45, 49, 52, 55, 56>>>>,  \* 神戸地方裁判所 078-367-1478
     <<<<27178, 27996, 22320, 26041, 35009, 21028, 25152>>, <<48, 52, 53, 45, 50, 49, 50, 45, 48, 57, 52, 55>>>>,  \* 横浜地方裁判所 045-212-0947
     <<<<12373, 12356, 12383, 12414, 22320, 26041, 35009, 21028, 25152>>, <<48, 52, 56, 45, 56, 54, 51, 45, 56, 55, 54, 49>>>>,  \* さいたま地方裁判所 048-863-8761
     <<<<21315, 33865, 22320, 26041, 35009, 21028, 25152>>, <<48, 52, 51, 45, 50, 50, 55, 45, 53, 54, 48, 49>>>>,  \* 千葉地方裁判所 043-227-5601
     <<<<20185, 21488, 22320, 26041, 35009, 21028, 25152>>, <<48, 50, 50, 45, 50, 54, 54, 45, 48, 48, 57, 49>>>>,  \* 仙台地方裁判所 022-266-0091
     <<<<26413, 24140, 22320, 26041, 35009, 21028, 25152>>, <<48, 49, 49, 45, 50, 55, 49, 45, 49, 52, 53, 54>>>>,  \* 札幌地方裁判所 011-271-1456
     <<<<23665, 21475, 22320, 26041, 35009, 21028, 25152>>, <<48, 56, 51, 45, 57, 50, 50, 45, 49, 52, 52, 48>>>> >>  \* 山口地方裁判所 083-922-1440

\* --- court name ---------------------------------------------------------
\* ((?:cityNames)\s*(?:地方|高等|家庭|簡易)\s*裁判\s*所
\*   (?:\s*[一-鿿]+\s*支部)?(?:\s*民事\s*第\s*[０-９\d]+\s*部)?)
courtPattern ==
  Grp(1, Cat(<< AnyOfStr(CityNames), WsStar,
                AnyOfStr(<< <<22320, 26041>>, <<39640, 31561>>, <<23478, 24237>>, <<31777, 26131>> >>), WsStar,  \* 地方 高等 家庭 簡易
                Str(<<35009, 21028>>), WsStar, Str(<<25152>>),  \* 裁判 所
                Opt(Cat(<< WsStar, Plus(Kanji), WsStar, Str(<<25903, 37096>>) >>)),  \* 支部
                Opt(Cat(<< WsStar, Str(<<27665, 20107>>), WsStar, Str(<<31532>>), WsStar,  \* 民事 第
                           Plus(OneOf(FwDigitRanges \cup DigitRanges)), WsStar, Str(<<37096>>) >>)) >>))  \* 部

\* courtCandidates: the cleaned matches, in the order of the text
courtCandidates(t) ==
  LET ms == ExecAll(t, courtPattern, 1)
  IN  [i \in 1..Len(ms) |-> StripWs(Group(t, ms[i], 1))]

\* faulty variant: the first match is kept instead of the longest
longestOf_first(a, b) == a

\* (a, b) => a.length >= b.length ? a : b
longestOf(a, b) == IF Len(a) >= Len(b) THEN a ELSE b

\* courtCandidates.reduce(longestOf), for a non-empty list
RECURSIVE reduceLongest(_, _, _)
reduceLongest(cs, i, acc) ==
  IF i > Len(cs) THEN acc ELSE reduceLongest(cs, i + 1, longestOf(acc, cs[i]))

\* info.courtName: empty sequence when there is no match
courtNameOf(t) ==
  LET cs == courtCandidates(t)
  IN  IF Len(cs) > 0 THEN << reduceLongest(cs, 2, cs[1]) >> ELSE <<>>

\* --- case number --------------------------------------------------------
\* caseSymbols
caseSymbols == <<12527, 12530, 12493, 12524, 12514, 12495, 12494, 12491, 12490, 12521, 34892, 12431, 12434, 12397, 12428, 12418, 12399, 12398, 12395, 12394, 12425>>  \* ワヲネレモハノニナラ行わをねれもはのになら

CaseSymbol == OneOf(Chars(caseSymbols))
\* [令平]
Era == OneOf(Chars(<<20196, 24179>>))  \* 令平
\* [（(]  and  [）)]
OpenParen == OneOf(Chars(<<65288, 40>>))  \* （(
CloseParen == OneOf(Chars(<<65289, 41>>))  \* ）)

\* caseNumberPatterns, in the order they are tried
caseNumberPatterns ==
  << \* ([令平]和\d+年[（(][caseSymbols][）)]\s*第?\s*\d+号)
     Grp(1, Cat(<< Era, Str(<<21644>>), Plus(Digit), Str(<<24180>>), OpenParen, CaseSymbol, CloseParen,  \* 和 年
                   WsStar, Opt(Str(<<31532>>)), WsStar, Plus(Digit), Str(<<21495>>) >>)),  \* 第 号
     \* ([令平]\s*和\s*\d+\s*年\s*[（(]\s*[caseSymbols]\s*[）)]\s*第?\s*\d+\s*号)
     Grp(1, Cat(<< Era, WsStar, Str(<<21644>>), WsStar, Plus(Digit), WsStar, Str(<<24180>>), WsStar,  \* 和 年
                   OpenParen, WsStar, CaseSymbol, WsStar, CloseParen, WsStar,
                   Opt(Str(<<31532>>)), WsStar, Plus(Digit), WsStar, Str(<<21495>>) >>)),  \* 第 号
     \* ([令平]\s*和\s*\d+\s*年\s*\(\s*[caseSymbols]\s*\)\s*第?\s*\d+\s*号)
     Grp(1, Cat(<< Era, WsStar, Str(<<21644>>), WsStar, Plus(Digit), WsStar, Str(<<24180>>), WsStar,  \* 和 年
                   Str(<<40>>), WsStar, CaseSymbol, WsStar, Str(<<41>>), WsStar,  \* ( )
                   Opt(Str(<<31532>>)), WsStar, Plus(Digit), WsStar, Str(<<21495>>) >>)),  \* 第 号
     \* (令\s*和\s*(\d+)\s*年\s*[（(]\s*([caseSymbols])\s*[）)]\s*第\s*(\d+)\s*号)
     Grp(1, Cat(<< Str(<<20196>>), WsStar, Str(<<21644>>), WsStar, Grp(2, Plus(Digit)), WsStar, Str(<<24180>>), WsStar,  \* 令 和 年
                   OpenParen, WsStar, Grp(3, CaseSymbol), WsStar, CloseParen, WsStar,
                   Str(<<31532>>), WsStar, Grp(4, Plus(Digit)), WsStar, Str(<<21495>>) >>)) >>  \* 第 号

\* cn.replace(/（/g, '(').replace(/）/g, ')')
halfWidthParens(s) ==
  [i \in 1..Len(s) |-> IF s[i] = 65288 THEN 40 ELSE IF s[i] = 65289 THEN 41 ELSE s[i]]  \* （ ( ） )

\* faulty variant: the white space of the match is kept
cleanCaseNumber_keepSpaces(s) == halfWidthParens(s)

\* match[1].replace(/\s+/g, '') with the brackets made half-width
cleanCaseNumber(s) == halfWidthParens(StripWs(s))

\* the first pattern of caseNumberPatterns that matches, from pattern i on
RECURSIVE strictCaseNumber(_, _)
strictCaseNumber(t, i) ==
  IF i > Len(caseNumberPatterns) THEN <<>>
  ELSE LET m == Match(t, caseNumberPatterns[i], 4)
       IN  IF m.ok THEN << cleanCaseNumber(Group(t, m, 1)) >>
           ELSE strictCaseNumber(t, i + 1)

\* parseInt of a string of decimal digits
RECURSIVE parseInt(_)
parseInt(ds) ==
  IF ds = <<>> THEN 0 ELSE 10 * parseInt(SubSeq(ds, 1, Len(ds) - 1)) + (ds[Len(ds)] - 48)

\* the decimal digits of a number, as in a template literal
RECURSIVE numberToString(_)
numberToString(n) ==
  IF n < 10 THEN << 48 + n >> ELSE numberToString(n \div 10) \o << 48 + (n % 10) >>

\* /事\s*件\s*の\s*表\s*示[】\]\s]*([^\n]{1,80})/
displaySectionPattern ==
  Cat(<< Str(<<20107>>), WsStar, Str(<<20214>>), WsStar, Str(<<12398>>), WsStar, Str(<<34920>>), WsStar, Str(<<31034>>),  \* 事 件 の 表 示
         Star(OneOf({<<12305, 12305>>, <<93, 93>>} \cup WsRanges)), Grp(1, Rep(NotLF, 1, 80)) >>)  \* 】 】 ] ]

\* 令?\s*和?\s*(\d+)\s*年?\s*[（(]\s*([caseSymbols])\s*[）)]\s*第\s*(\d+)\s*号
displayFullPattern ==
  Cat(<< Opt(Str(<<20196>>)), WsStar, Opt(Str(<<21644>>)), WsStar, Grp(1, Plus(Digit)), WsStar,  \* 令 和
         Opt(Str(<<24180>>)), WsStar, OpenParen, WsStar, Grp(2, CaseSymbol), WsStar, CloseParen, WsStar,  \* 年
         Str(<<31532>>), WsStar, Grp(3, Plus(Digit)), WsStar, Str(<<21495>>) >>)  \* 第 号

\* /第\s*(\d+)\s*号/
serialPattern == Cat(<< Str(<<31532>>), WsStar, Grp(1, Plus(Digit)), WsStar, Str(<<21495>>) >>)  \* 第 号

\* [（(]\s*([caseSymbols])\s*[）)]
symbolPattern == Cat(<< OpenParen, WsStar, Grp(1, CaseSymbol), WsStar, CloseParen >>)

\* /令\s*和\s*(\d+)\s*年/g
yearRegex == Cat(<< Str(<<20196>>), WsStar, Str(<<21644>>), WsStar, Grp(1, Plus(Digit)), WsStar, Str(<<24180>>) >>)  \* 令 和 年

\* the symbol used when the section has none
DefaultSymbol == <<12527>>  \* ワ

\* `令和${year}年(${symbol})第${num}号`
caseNumberText(year, symbol, num) ==
  <<20196, 21644>> \o year \o <<24180, 40>> \o symbol \o <<41, 31532>> \o num \o <<21495>>  \* 令和 年( )第 号

\* faulty variant: a case number without the era year is flagged only when
\* the symbol was not found
guessedWithoutYear_bySymbol(symbolFound) == ~symbolFound

\* info.caseNumberGuessed = true, when no era year is found in the text
guessedWithoutYear(symbolFound) == TRUE

\* the case number from the section 事件の表示: caseNumber and caseNumberGuessed
displayCaseNumber(t) ==
  LET none == [caseNumber |-> <<>>, caseNumberGuessed |-> <<>>]
      section == Match(t, displaySectionPattern, 1)
      sectionText == Group(t, section, 1)
      fullMatch == Match(sectionText, displayFullPattern, 3)
      numMatch == Match(sectionText, serialPattern, 1)
      caseNum == Group(sectionText, numMatch, 1)
      symbolMatch == Match(sectionText, symbolPattern, 1)
      symbol == IF symbolMatch.ok THEN Group(sectionText, symbolMatch, 1) ELSE DefaultSymbol
      guessed == ~symbolMatch.ok
      yms == ExecAll(t, yearRegex, 1)
      yearMatches == { parseInt(Group(t, yms[i], 1)) : i \in 1..Len(yms) }
      minYear == SetMin(yearMatches)
  IN  IF ~section.ok THEN none
      ELSE IF fullMatch.ok
        THEN [caseNumber |-> << caseNumberText(Group(sectionText, fullMatch, 1),
                                               Group(sectionText, fullMatch, 2),
                                               Group(sectionText, fullMatch, 3)) >>,
              caseNumberGuessed |-> <<>>]
      ELSE IF ~numMatch.ok THEN none
      ELSE IF Len(yms) > 0
        THEN [caseNumber |-> << caseNumberText(numberToString(minYear), symbol, caseNum) >>,
              caseNumberGuessed |-> << guessed >>]
      ELSE [caseNumber |-> << <<40>> \o symbol \o <<41, 31532>> \o caseNum \o <<21495>> >>,  \* ( )第 号
            caseNumberGuessed |-> << guessedWithoutYear(symbolMatch.ok) >>]

\* info.caseNumber and info.caseNumberGuessed
caseNumberOf(t) ==
  LET strict == strictCaseNumber(t, 1)
  IN  IF strict # <<>> THEN [caseNumber |-> strict, caseNumberGuessed |-> <<>>]
      ELSE displayCaseNumber(t)

\* --- case name ----------------------------------------------------------
\* (?:請求|確認|等?)
ClaimSuffix == Alt(<< Str(<<35531, 27714>>), Str(<<30906, 35469>>), Opt(Str(<<31561>>)) >>)  \* 請求 確認 等

\* caseNamePatterns, in the order they are tried
caseNamePatterns ==
  << \* /損害\s*賠償[\s\S]{0,50}?請求\s*事件/
     Cat(<< Str(<<25613, 23475>>), WsStar, Str(<<36064, 20767>>), RepLazy(AnyChar, 0, 50), Str(<<35531, 27714>>), WsStar, Str(<<20107, 20214>>) >>),  \* 損害 賠償 請求 事件
     \* /(?:号\s*)([一-鿿]+(?:請求|確認|等?)\s*事件)/
     Cat(<< Str(<<21495>>), WsStar, Grp(1, Cat(<< Plus(Kanji), ClaimSuffix, WsStar, Str(<<20107, 20214>>) >>)) >>),  \* 号 事件
     \* /(損害賠償請求事件|貸金返還請求事件|建物明渡請求事件|不当利得返還請求事件|(?:[一-鿿]+請求事件))/
     Grp(1, Alt(<< Str(<<25613, 23475, 36064, 20767, 35531, 27714, 20107, 20214>>), Str(<<36024, 37329, 36820, 36996, 35531, 27714, 20107, 20214>>), Str(<<24314, 29289, 26126, 28193, 35531, 27714, 20107, 20214>>),  \* 損害賠償請求事件 貸金返還請求事件 建物明渡請求事件
                   Str(<<19981, 24403, 21033, 24471, 36820, 36996, 35531, 27714, 20107, 20214>>), Cat(<< Plus(Kanji), Str(<<35531, 27714, 20107, 20214>>) >>) >>)),  \* 不当利得返還請求事件 請求事件
     \* /([一-鿿]+\s+(?:請求|確認)\s*事件)/
     Grp(1, Cat(<< Plus(Kanji), Plus(Ws), Alt(<< Str(<<35531, 27714>>), Str(<<30906, 35469>>) >>), WsStar, Str(<<20107, 20214>>) >>)) >>  \* 請求 確認 事件

\* /([一-鿿]+請求事件|[一-鿿]+確認事件)/
cleanCaseNamePattern ==
  Grp(1, Alt(<< Cat(<< Plus(Kanji), Str(<<35531, 27714, 20107, 20214>>) >>), Cat(<< Plus(Kanji), Str(<<30906, 35469, 20107, 20214>>) >>) >>))  \* 請求事件 確認事件

\* /^号\s*/
leadingGoPattern == Cat(<< Bos, Str(<<21495>>), WsStar >>)  \* 号

StartsWith(s, t) == Len(s) >= Len(t) /\ SubSeq(s, 1, Len(t)) = t

\* the case name taken from the match m of a pattern: empty sequence when
\* the cleaned match has no 事件
caseNameFrom(t, m) ==
  LET whole == Matched(t, m)
      first == IF HasGroup(m, 1) /\ Group(t, m, 1) # <<>> /\ ~StartsWith(whole, <<25613, 23475>>)  \* 損害
                 THEN Group(t, m, 1) ELSE whole
      lead == Match(first, leadingGoPattern, 0)
      noGo == IF lead.ok THEN SubSeq(first, lead.e + 1, Len(first)) ELSE first
      caseName == StripWs(noGo)
      cleaned == Match(caseName, cleanCaseNamePattern, 1)
  IN  IF cleaned.ok THEN << Group(caseName, cleaned, 1) >>
      ELSE IF Includes(caseName, <<20107, 20214>>) THEN << caseName >>  \* 事件
      ELSE <<>>

\* info.caseName: only the first pattern that matches is used
RECURSIVE caseNameOf(_, _)
caseNameOf(t, i) ==
  IF i > Len(caseNamePatterns) THEN <<>>
  ELSE LET m == Match(t, caseNamePatterns[i], 1)
       IN  IF m.ok THEN caseNameFrom(t, m) ELSE caseNameOf(t, i + 1)

\* --- party names --------------------------------------------------------
\* s.trim()
Trim(s) ==
  LET keep == { i \in 1..Len(s) : ~IsWs(s[i]) }
  IN  IF keep = {} THEN <<>> ELSE SubSeq(s, SetMin(keep), SetMax(keep))

\* /\s*(外\s*\d+\s*名)\s*$/
othersPattern ==
  Cat(<< WsStar, Grp(1, Cat(<< Str(<<22806>>), WsStar, Plus(Digit), WsStar, Str(<<21517>>) >>)), WsStar, Eos >>)  \* 外 名

\* / (外\d+名)$/
othersSplitPattern ==
  Cat(<< Str(<<32>>), Grp(1, Cat(<< Str(<<22806>>), Plus(Digit), Str(<<21517>>) >>)), Eos >>)  \*   外 名

\* parts[0].replace(/\s+/g, '') + ' ' + parts[1]
joinOthers(name, suffix) == StripWs(name) \o <<32>> \o suffix  \*  

\* the parts of the split sm joined, or the name without white space
splitOthers(name, sm) ==
  IF sm.ok THEN joinOthers(SubSeq(name, 1, sm.s), Group(name, sm, 1))
  ELSE StripWs(name)

\* name.replace(/\s*(外\s*\d+\s*名)\s*$/, ...) for the match om of othersPattern
markOthers(trimmed, om) ==
  IF om.ok THEN SubSeq(trimmed, 1, om.s) \o <<32>> \o StripWs(Group(trimmed, om, 1))  \*  
  ELSE trimmed

\* name.split(/ (外\d+名)$/) and the parts joined
joinedName(name) == splitOthers(name, Match(name, othersSplitPattern, 1))

\* the name of a party from the trimmed text
trimmedPartyName(trimmed) == joinedName(markOthers(trimmed, Match(trimmed, othersPattern, 1)))

\* the name of a party from the text captured after its label
partyName(raw) == trimmedPartyName(Trim(raw))

\* /当\s*事\s*者[\s\S]{0,200}/
partySectionPattern ==
  Cat(<< Str(<<24403>>), WsStar, Str(<<20107>>), WsStar, Str(<<32773>>), Rep(AnyChar, 0, 200) >>)  \* 当 事 者

\* /原\s*[告&]\s*[_\s]*([^\n原被]{1,40})/
plaintiffInPartyPattern ==
  Cat(<< Str(<<21407>>), WsStar, OneOf(Chars(<<21578, 38>>)), WsStar, Star(OneOf(Chars(<<95>>) \cup WsRanges)),  \* 原 告& _
         Grp(1, Rep(NoneOf(Chars(<<10, 21407, 34987>>)), 1, 40)) >>)  \* \n原被

\* /被\s*告\s*[_\s]*([^\n原被]{1,40})/
defendantInPartyPattern ==
  Cat(<< Str(<<34987>>), WsStar, Str(<<21578>>), WsStar, Star(OneOf(Chars(<<95>>) \cup WsRanges)),  \* 被 告 _
         Grp(1, Rep(NoneOf(Chars(<<10, 21407, 34987>>)), 1, 40)) >>)  \* \n原被

\* (?!.*(?:訴訟|代理))
NoCounselAhead == NotAhead(Cat(<< Star(Dot), Alt(<< Str(<<35380, 35359>>), Str(<<20195, 29702>>) >>) >>))  \* 訴訟 代理

OpenBracket == OneOf({<<12304, 12304>>, <<91, 91>>})  \* 【 【 [ [
CloseBracket == OneOf({<<12305, 12305>>, <<93, 93>>})  \* 】 】 ] ]
NotLineOrBracket == NoneOf({<<LF, LF>>, <<12304, 12304>>, <<91, 91>>})  \* 【 【 [ [

\* plaintiffPatterns
plaintiffPatterns ==
  << \* /[【\[]\s*原\s*告\s*[】\]]\s*([^\n【\[]{1,30})/
     Cat(<< OpenBracket, WsStar, Str(<<21407>>), WsStar, Str(<<21578>>), WsStar, CloseBracket, WsStar,  \* 原 告
            Grp(1, Rep(NotLineOrBracket, 1, 30)) >>),
     \* /原\s*告\s+(?!.*(?:訴訟|代理))([^\n（(被代訴]{1,20})/
     Cat(<< Str(<<21407>>), WsStar, Str(<<21578>>), Plus(Ws), NoCounselAhead,  \* 原 告
            Grp(1, Rep(NoneOf(Chars(<<10, 65288, 40, 34987, 20195, 35380>>)), 1, 20)) >>) >>  \* \n（(被代訴

\* defendantPatterns
defendantPatterns ==
  << \* /[【\[]\s*(?:被|a)\s*告\s*[】\]]\s*([^\n【\[]{1,30})/
     Cat(<< OpenBracket, WsStar, Alt(<< Str(<<34987>>), Str(<<97>>) >>), WsStar, Str(<<21578>>), WsStar,  \* 被 a 告
            CloseBracket, WsStar, Grp(1, Rep(NotLineOrBracket, 1, 30)) >>),
     \* /被\s*告\s+(?!.*(?:訴訟|代理))([^\n（(原代訴]{1,30})/
     Cat(<< Str(<<34987>>), WsStar, Str(<<21578>>), Plus(Ws), NoCounselAhead,  \* 被 告
            Grp(1, Rep(NoneOf(Chars(<<10, 65288, 40, 21407, 20195, 35380>>)), 1, 30)) >>) >>  \* \n（(原代訴

\* the name of the party captured by the match m, if it is one
nameOfMatch(t, m) == IF m.ok THEN << partyName(Group(t, m, 1)) >> ELSE <<>>

\* the name after the label in the text of the section
nameInSectionText(partySectionText, labelPattern) ==
  nameOfMatch(partySectionText, Match(partySectionText, labelPattern, 1))

\* the name after the label in the match of partySectionPattern
nameInSection(t, section, labelPattern) ==
  IF section.ok THEN nameInSectionText(Matched(t, section), labelPattern) ELSE <<>>

\* the name after the label of the section 当事者: empty sequence when the
\* text has no such section or the section has no such label
nameInPartySection(t, labelPattern) ==
  nameInSection(t, Match(t, partySectionPattern, 0), labelPattern)

\* the name when one was found, otherwise the one of the next pattern
nameOrNext(name, next) == IF name # <<>> THEN name ELSE next

\* the name found by the first of the patterns that matches
RECURSIVE nameByPatterns(_, _, _)
nameByPatterns(t, patterns, i) ==
  IF i > Len(patterns) THEN <<>>
  ELSE nameOrNext(nameOfMatch(t, Match(t, patterns[i], 1)), nameByPatterns(t, patterns, i + 1))

\* !info.plaintiffName: the field is unset or the empty string
Falsy(field) == field = <<>> \/ field = << <<>> >>

\* the name of the section unless it is unset or empty and a pattern found one
nameOrFallback(inParty, fallback) ==
  IF ~Falsy(inParty) THEN inParty
  ELSE IF fallback # <<>> THEN fallback
  ELSE inParty

\* info.plaintiffName and info.defendantName
partyNameOf(t, inPartyPattern, patterns) ==
  nameOrFallback(nameInPartySection(t, inPartyPattern), nameByPatterns(t, patterns, 1))

\* --- counsel name -------------------------------------------------------
CjkRanges == KanjiRanges \cup KanaRanges

\* /宛て$/
ateSuffixPattern == Cat(<< Str(<<23451, 12390>>), Eos >>)  \* 宛て
\* /[宛殿様御中方和]+$/
honorificPattern == Cat(<< Plus(OneOf(Chars(<<23451, 27583, 27096, 24481, 20013, 26041, 21644>>))), Eos >>)  \* 宛殿様御中方和
\* /^[法会事件番号裁判]/
boilerplateStart == Chars(<<27861, 20250, 20107, 20214, 30058, 21495, 35009, 21028>>)  \* 法会事件番号裁判

\* s without the match m, or s when there is no match
RemoveMatch(s, m) ==
  IF m.ok THEN SubSeq(s, 1, m.s) \o SubSeq(s, m.e + 1, Len(s)) ELSE s

\* s.replace(re, '') for a regular expression without the g flag
RemoveFirst(s, re) == RemoveMatch(s, Match(s, re, 0))

MinNameLen == 2
MaxNameLen == 6

\* the checks of cleanLawyerName on the name left after the suffixes are cut
checkedLawyerName(name) ==
  IF Len(name) < MinNameLen \/ Len(name) > MaxNameLen THEN <<>>
  ELSE IF InRanges(name[1], boilerplateStart) THEN <<>>
  ELSE << name >>

\* cleanLawyerName from the CJK characters of the raw name on
cleanCjkName(cjk) ==
  IF cjk = <<>> THEN <<>>
  ELSE checkedLawyerName(RemoveFirst(RemoveFirst(cjk, ateSuffixPattern), honorificPattern))

\* cleanLawyerName(rawName): empty sequence for null
cleanLawyerName(rawName) ==
  LET IsCjk(c) == InRanges(c, CjkRanges)
  IN  cleanCjkName(SelectSeq(Trim(rawName), IsCjk))

\* 弁護\s*士\s*
Bengoshi == Cat(<< Str(<<24321, 35703>>), WsStar, Str(<<22763>>), WsStar >>)  \* 弁護 士

\* /原告\s*(?:ら)?\s*(?:訴\s*訟)?\s*代理\s*人\s*弁護\s*士\s*([^\n]{2,20})/g
formalPattern ==
  Cat(<< Str(<<21407, 21578>>), WsStar, Opt(Str(<<12425>>)), WsStar, Opt(Cat(<< Str(<<35380>>), WsStar, Str(<<35359>>) >>)), WsStar,  \* 原告 ら 訴 訟
         Str(<<20195, 29702>>), WsStar, Str(<<20154>>), WsStar, Bengoshi, Grp(1, Rep(NotLF, 2, 20)) >>)  \* 代理 人

\* /人\s*弁護\s*士\s*([^\n]{2,20})/g
senderPattern == Cat(<< Str(<<20154>>), WsStar, Bengoshi, Grp(1, Rep(NotLF, 2, 20)) >>)  \* 人

\* /弁護\s*士\s*([^\n]{2,15})\s*宛/g
atePattern == Cat(<< Bengoshi, Grp(1, Rep(NotLF, 2, 15)), WsStar, Str(<<23451>>) >>)  \* 宛

\* /弁護\s*士\s*([^\n]{2,15})/g
generalPattern == Cat(<< Bengoshi, Grp(1, Rep(NotLF, 2, 15)) >>)

SenderContext == 30
GeneralContext == 50

\* normalizedText.substring(Math.max(0, index - n), index).includes('被告')
defendantBefore(t, index, n) == Includes(Substring(t, Max(0, index - n), index), <<34987, 21578>>)  \* 被告

\* ownLawyerNames.some(own => name.includes(own))
isOwnLawyer(cfg, name) ==
  \E i \in 1..Len(cfg.lawyerNames) : Includes(name, cfg.lawyerNames[i])

\* the candidate pushed for the match m with the cleaned name, if any
candidateOf(t, cfg, m, priority, context, name) ==
  IF \/ (context > 0 /\ defendantBefore(t, m.s, context))
     \/ name = <<>>
     \/ (priority = 4 /\ isOwnLawyer(cfg, name[1]))
    THEN <<>>
  ELSE << [name |-> name[1], priority |-> priority] >>

\* the candidates pushed by the matches ms of one pattern, in order
RECURSIVE candidatesOf(_, _, _, _, _, _)
candidatesOf(t, cfg, ms, priority, context, i) ==
  IF i > Len(ms) THEN <<>>
  ELSE candidateOf(t, cfg, ms[i], priority, context, cleanLawyerName(Group(t, ms[i], 1)))
         \o candidatesOf(t, cfg, ms, priority, context, i + 1)

\* lawyerCandidates
lawyerCandidates(t, cfg) ==
  candidatesOf(t, cfg, ExecAll(t, formalPattern, 1), 1, 0, 1)
    \o candidatesOf(t, cfg, ExecAll(t, senderPattern, 1), 2, SenderContext, 1)
    \o candidatesOf(t, cfg, ExecAll(t, atePattern, 1), 3, 0, 1)
    \o candidatesOf(t, cfg, ExecAll(t, generalPattern, 1), 4, GeneralContext, 1)

\* uniqueCandidates before the sort: one candidate per name, in the order
\* of the first occurrence of the name, with the best priority of the name
uniqueCandidates(cands) ==
  LET IsFirst(i) == \A j \in 1..(i - 1) : cands[j].name # cands[i].name
      firsts == SelectSeq([i \in 1..Len(cands) |-> i], IsFirst)
      best(name) == SetMin({ cands[j].priority : j \in { x \in 1..Len(cands) : cands[x].name = name } })
  IN  [k \in 1..Len(firsts) |-> [name |-> cands[firsts[k]].name, priority |-> best(cands[firsts[k]].name)]]

IdealMin == 3
IdealMax == 4
NoisyLen == 5
TrimmedLen == 4

\* faulty variant: no bonus for a name of 3 or 4 characters
compareCandidates_noBonus(a, b) ==
  IF a.priority # b.priority THEN a.priority - b.priority
  ELSE Len(b.name) - Len(a.name)

\* the comparator of the sort: a negative number when a comes before b
compareCandidates(a, b) ==
  LET aIdeal == IF Len(a.name) >= IdealMin /\ Len(a.name) <= IdealMax THEN 0 ELSE 1
      bIdeal == IF Len(b.name) >= IdealMin /\ Len(b.name) <= IdealMax THEN 0 ELSE 1
  IN  IF a.priority # b.priority THEN a.priority - b.priority
      ELSE IF aIdeal # bIdeal THEN aIdeal - bIdeal
      ELSE Len(b.name) - Len(a.name)

\* uniqueCandidates[0] after the (stable) sort
firstCandidate(uniq) ==
  LET i == CHOOSE i \in 1..Len(uniq) :
             /\ \A j \in 1..Len(uniq) : compareCandidates(uniq[i], uniq[j]) <= 0
             /\ \A j \in 1..(i - 1) : compareCandidates(uniq[j], uniq[i]) > 0
  IN  uniq[i]

SurnameMax == 3

\* faulty variant: only a two-character candidate counts as the family name
isShorterPrefix_twoOnly(c, bestName) == Len(c.name) = 2 /\ StartsWith(bestName, c.name)

\* c.name.length <= 3 && bestName.startsWith(c.name)
isShorterPrefix(c, bestName) == Len(c.name) <= SurnameMax /\ StartsWith(bestName, c.name)

\* the name kept of bestName = uniqueCandidates[0].name
trimmedBestName(uniq, bestName) ==
  IF Len(bestName) = NoisyLen /\ \E i \in 1..Len(uniq) : isShorterPrefix(uniq[i], bestName)
    THEN << Substring(bestName, 0, TrimmedLen) >>
  ELSE << bestName >>

\* if (uniqueCandidates.length > 0) ... on the unique candidates
lawyerOfUnique(uniq) ==
  IF Len(uniq) = 0 THEN <<>> ELSE trimmedBestName(uniq, firstCandidate(uniq).name)

\* info.plaintiffLawyer
plaintiffLawyerOf(t, cfg) == lawyerOfUnique(uniqueCandidates(lawyerCandidates(t, cfg)))

\* --- court fax number from the dictionary --------------------------------
AnyDigit == OneOf(FwDigitRanges \cup DigitRanges)

\* /民事第[０-９\d]+部.*$/
civilDivisionPattern == Cat(<< Str(<<27665, 20107, 31532>>), Plus(AnyDigit), Str(<<37096>>), Star(Dot), Eos >>)  \* 民事第 部
\* /第[０-９\d]+[民刑]事部$/
numberedDivisionPattern == Cat(<< Str(<<31532>>), Plus(AnyDigit), OneOf(Chars(<<27665, 21009>>)), Str(<<20107, 37096>>), Eos >>)  \* 第 民刑 事部

\* courtBase
courtBase(courtName) == RemoveFirst(RemoveFirst(courtName, civilDivisionPattern), numberedDivisionPattern)

\* COURT_FAX_MAP[key] || ''
lookupCourtFax(key) ==
  LET hits == { i \in 1..Len(COURT_FAX_MAP) : COURT_FAX_MAP[i][1] = key }
  IN  IF hits = {} THEN <<>> ELSE COURT_FAX_MAP[SetMin(hits)][2]

\* Object.values(COURT_FAX_MAP)
courtFaxValues == { COURT_FAX_MAP[i][2] : i \in 1..Len(COURT_FAX_MAP) }

\* --- fax numbers in the text ---------------------------------------------
\* the offset between a full-width digit and its half-width digit (0xFEE0)
FullWidthOffset == 65248

\* faulty variant: the full-width digits are kept
normalizeFax_hyphensOnly(raw) ==
  [i \in 1..Len(raw) |-> IF raw[i] = 65293 \/ raw[i] = 12540 THEN 45 ELSE raw[i]]  \* － ー -

\* normalizeFax(raw)
normalizeFax(raw) ==
  [i \in 1..Len(raw) |->
     IF InRanges(raw[i], FwDigitRanges) THEN raw[i] - FullWidthOffset
     ELSE IF raw[i] = 65293 \/ raw[i] = 12540 THEN 45  \* － ー -
     ELSE raw[i]]

\* (?:FAX|ＦＡＸ|[Ff]ax)
FaxWord == Alt(<< Str(<<70, 65, 88>>), Str(<<65318, 65313, 65336>>), Cat(<< OneOf(Chars(<<70, 102>>)), Str(<<97, 120>>) >>) >>)  \* FAX ＦＡＸ Ff ax
\* [0-9０-９\-－ー]+
FaxDigits == Plus(OneOf(DigitRanges \cup FwDigitRanges \cup Chars(<<45, 65293, 12540>>)))  \* -－ー

\* /裁\s*判\s*所[\s\S]{0,60}?[（(]\s*(?:FAX|ＦＡＸ|[Ff]ax)\s*([0-9０-９\-－ー]+)\s*[）)]/
explicitCourtFaxPattern ==
  Cat(<< Str(<<35009>>), WsStar, Str(<<21028>>), WsStar, Str(<<25152>>), RepLazy(AnyChar, 0, 60),  \* 裁 判 所
         OpenParen, WsStar, FaxWord, WsStar, Grp(1, FaxDigits), WsStar, CloseParen >>)

\* /([一-鿿]{1,10})\s*[（(]\s*(?:FAX|ＦＡＸ|[Ff]ax)\s*([0-9０-９\-－ー]+)\s*[）)]/g
explicitFaxRegex ==
  Cat(<< Grp(1, Rep(Kanji, 1, 10)), WsStar, OpenParen, WsStar, FaxWord, WsStar,
         Grp(2, FaxDigits), WsStar, CloseParen >>)

\* /(?:FAX|ＦＡＸ|[Ff]ax)[：:\s]*([0-9０-９\-－ー]+)/g
faxRegex ==
  Cat(<< FaxWord, Star(OneOf(Chars(<<65306, 58>>) \cup WsRanges)), Grp(1, FaxDigits) >>)  \* ：:

\* /原告\s*(?:ら)?\s*訴\s*訟\s*代\s*理\s*人/
plaintiffCounselPattern ==
  Cat(<< Str(<<21407, 21578>>), WsStar, Opt(Str(<<12425>>)), WsStar, Str(<<35380>>), WsStar, Str(<<35359>>), WsStar,  \* 原告 ら 訴 訟
         Str(<<20195>>), WsStar, Str(<<29702>>), WsStar, Str(<<20154>>) >>)  \* 代 理 人
\* /被告\s*(?:ら)?\s*訴\s*訟\s*代\s*理\s*人/
defendantCounselPattern ==
  Cat(<< Str(<<34987, 21578>>), WsStar, Opt(Str(<<12425>>)), WsStar, Str(<<35380>>), WsStar, Str(<<35359>>), WsStar,  \* 被告 ら 訴 訟
         Str(<<20195>>), WsStar, Str(<<29702>>), WsStar, Str(<<20154>>) >>)  \* 代 理 人
\* /弁護\s*士/
bengoshiPattern == Cat(<< Str(<<24321, 35703>>), WsStar, Str(<<22763>>) >>)  \* 弁護 士

\* ownFaxPatterns.some(p => fax.includes(p))
isOwnFax(cfg, fax) == \E i \in 1..Len(cfg.faxNumbers) : Includes(fax, cfg.faxNumbers[i])

\* info.courtFaxFromPdf after the explicit court label
explicitCourtFax(t, cfg) ==
  LET m == Match(t, explicitCourtFaxPattern, 1)
  IN  IF m.ok THEN << normalizeFax(Group(t, m, 1)) >> ELSE <<>>

\* allExplicitFaxes
allExplicitFaxes(t) ==
  LET ms == ExecAll(t, explicitFaxRegex, 2)
  IN  [i \in 1..Len(ms) |-> [label |-> Group(t, ms[i], 1), fax |-> normalizeFax(Group(t, ms[i], 2))]]

\* faulty variant: a later labelled fax replaces the one already kept
explicitFaxStep_lastWins(ef, cfg, courtFaxFromPdf, lawyerFax) ==
  LET skip == \/ Includes(ef.label, <<35009, 21028>>) \/ Includes(ef.label, <<35009, 21028, 25152>>)  \* 裁判 裁判所
              \/ (courtFaxFromPdf # <<>> /\ ef.fax = courtFaxFromPdf[1])
              \/ isOwnFax(cfg, ef.fax)
  IN  IF skip THEN lawyerFax ELSE << ef.fax >>

\* one pass of the loop over allExplicitFaxes: info.plaintiffLawyerFax after entry ef
explicitFaxStep(ef, cfg, courtFaxFromPdf, lawyerFax) ==
  LET skip == \/ Includes(ef.label, <<35009, 21028>>) \/ Includes(ef.label, <<35009, 21028, 25152>>)  \* 裁判 裁判所
              \/ (courtFaxFromPdf # <<>> /\ ef.fax = courtFaxFromPdf[1])
              \/ isOwnFax(cfg, ef.fax)
              \/ lawyerFax # <<>>
  IN  IF skip THEN lawyerFax ELSE << ef.fax >>

\* the loop over allExplicitFaxes from entry i on: info.plaintiffLawyerFax
RECURSIVE explicitLawyerFax(_, _, _, _, _)
explicitLawyerFax(efs, cfg, courtFaxFromPdf, lawyerFax, i) ==
  IF i > Len(efs) THEN lawyerFax
  ELSE explicitLawyerFax(efs, cfg, courtFaxFromPdf,
                         explicitFaxStep(efs[i], cfg, courtFaxFromPdf, lawyerFax), i + 1)

\* allFaxEntries
allFaxEntries(t) ==
  LET ms == ExecAll(t, faxRegex, 1)
  IN  [i \in 1..Len(ms) |-> [fax |-> normalizeFax(Group(t, ms[i], 1)), index |-> ms[i].s]]

LookBack == 200

\* textBefore
textBefore(t, index) == Substring(t, Max(0, index - LookBack), index)

\* isNearPlaintiffLawyer
isNearPlaintiffLawyer(before) ==
  \/ Test(before, plaintiffCounselPattern)
  \/ (Test(before, bengoshiPattern) /\ ~Includes(before, <<34987, 21578>>))  \* 被告

\* isNearDefendantLawyer
isNearDefendantLawyer(before) == Test(before, defendantCounselPattern)

\* one pass of the loop over allFaxEntries: the fields after the entry
classifyFaxEntry(t, cfg, entry, f) ==
  LET before == textBefore(t, entry.index)
      isKnownCourtFax == \E cf \in courtFaxValues : Includes(entry.fax, cf)
      skip == \/ isOwnFax(cfg, entry.fax)
              \/ (f.courtFaxFromPdf # <<>> /\ Includes(entry.fax, f.courtFaxFromPdf[1]))
              \/ isNearDefendantLawyer(before)
  IN  IF skip THEN f
      ELSE IF isKnownCourtFax
        THEN (IF f.courtFaxFromPdf = <<>> THEN [f EXCEPT !.courtFaxFromPdf = << entry.fax >>] ELSE f)
      ELSE IF isNearPlaintiffLawyer(before)
        THEN (IF f.plaintiffLawyerFax = <<>> THEN [f EXCEPT !.plaintiffLawyerFax = << entry.fax >>] ELSE f)
      ELSE (IF f.plaintiffLawyerFax = <<>> THEN [f EXCEPT !.plaintiffLawyerFax = << entry.fax >>] ELSE f)

\* the loop over allFaxEntries from entry i on, with the fields set so far
RECURSIVE classifyFaxEntries(_, _, _, _, _)
classifyFaxEntries(t, cfg, entries, f, i) ==
  IF i > Len(entries) THEN f
  ELSE classifyFaxEntries(t, cfg, entries, classifyFaxEntry(t, cfg, entries[i], f), i + 1)

\* info.courtFaxFromPdf and info.plaintiffLawyerFax
faxNumbersOf(t, cfg) ==
  LET fromLabel == explicitCourtFax(t, cfg)
      lawyerFax == explicitLawyerFax(allExplicitFaxes(t), cfg, fromLabel, <<>>, 1)
  IN  classifyFaxEntries(t, cfg, allFaxEntries(t),
                         [courtFaxFromPdf |-> fromLabel, plaintiffLawyerFax |-> lawyerFax], 1)

\* --- the whole function -------------------------------------------------
\* faulty variant: the number of the dictionary is kept when it exists
finalCourtFax_dictionaryFirst(fromDictionary, courtFaxFromPdf) ==
  IF fromDictionary # <<>> /\ fromDictionary # << <<>> >> THEN fromDictionary
  ELSE IF courtFaxFromPdf # <<>> THEN courtFaxFromPdf ELSE fromDictionary

\* if (info.courtFaxFromPdf) info.courtFax = info.courtFaxFromPdf
finalCourtFax(fromDictionary, courtFaxFromPdf) ==
  IF courtFaxFromPdf # <<>> THEN courtFaxFromPdf ELSE fromDictionary

\* info.courtFax = COURT_FAX_MAP[courtBase] || '' when a court name was found
dictionaryFax(courtName) ==
  IF courtName # <<>> THEN << lookupCourtFax(courtBase(courtName[1])) >> ELSE <<>>

\* the info object built from the fields found in the normalized text
infoOfFields(normalizedText, cfg, courtName, cn, faxes) ==
  [courtName |-> courtName,
   caseNumber |-> cn.caseNumber,
   caseNumberGuessed |-> cn.caseNumberGuessed,
   caseName |-> caseNameOf(normalizedText, 1),
   plaintiffName |-> partyNameOf(normalizedText, plaintiffInPartyPattern, plaintiffPatterns),
   defendantName |-> partyNameOf(normalizedText, defendantInPartyPattern, defendantPatterns),
   plaintiffLawyer |-> plaintiffLawyerOf(normalizedText, cfg),
   courtFax |-> finalCourtFax(dictionaryFax(courtName), faxes.courtFaxFromPdf),
   plaintiffLawyerFax |-> faxes.plaintiffLawyerFax,
   courtFaxFromPdf |-> faxes.courtFaxFromPdf]

\* the fields read from the normalized text
infoOfNormalized(normalizedText, cfg) ==
  infoOfFields(normalizedText, cfg, courtNameOf(normalizedText), caseNumberOf(normalizedText),
               faxNumbersOf(normalizedText, cfg))

\* extractInfoFromText(text): a field that is not set is the empty sequence
extractInfoFromText(rawText, cfg) ==
  infoOfNormalized(normalizeLines(rawText), cfg)

\* ------------------------------------------------------------------------
\* Inputs of extractInfoFromText: texts made of the lines of a cover letter
\* ------------------------------------------------------------------------
MaxPieces == 2
MaxDigits == 2

\* lines naming a court
CourtLines ==
  { <<26481, 20140, 22320, 26041, 35009, 21028, 25152, 32, 24481, 20013, 10>>,  \* 東京地方裁判所 御中\n
    <<26481, 20140, 32, 22320, 26041, 32, 35009, 21028, 25152, 32, 27665, 20107, 32, 31532, 32, 65298, 32, 37096, 10>>,  \* 東京 地方 裁判所 民事 第 ２ 部\n
    <<24195, 23798, 22320, 26041, 35009, 21028, 25152, 31119, 23665, 25903, 37096, 27665, 20107, 31532, 49, 37096, 10>>,  \* 広島地方裁判所福山支部民事第1部\n
    <<12373, 12356, 12383, 12414, 22320, 26041, 35009, 21028, 25152, 12289>>,  \* さいたま地方裁判所、
    <<27941, 22320, 26041, 35009, 21028, 25152, 21271, 25903, 37096, 12289>>,  \* 津地方裁判所北支部、
    <<27941, 31777, 26131, 35009, 21028, 25152, 13, 10>> }  \* 津簡易裁判所\r\n

\* lines naming a court and lines with a fax number after it
CourtFaxLines ==
  { <<26481, 20140, 22320, 26041, 35009, 21028, 25152, 32, 24481, 20013, 10>>,  \* 東京地方裁判所 御中\n
    <<24195, 23798, 22320, 26041, 35009, 21028, 25152, 31119, 23665, 25903, 37096, 27665, 20107, 31532, 49, 37096, 10>>,  \* 広島地方裁判所福山支部民事第1部\n
    <<27941, 31777, 26131, 35009, 21028, 25152, 13, 10>>,  \* 津簡易裁判所\r\n
    <<40, 70, 65, 88, 32, 48, 51, 45, 49, 49, 49, 49, 45, 50, 50, 50, 50, 41, 10>>,  \* (FAX 03-1111-2222)\n
    <<65288, 65318, 65313, 65336, 32, 65296, 65304, 65298, 65293, 65301, 65301, 65301, 65293, 65297, 65298, 65299, 65300, 65289, 10>>,  \* （ＦＡＸ ０８２－５５５－１２３４）\n
    <<70, 65, 88, 65306, 48, 56, 50, 45, 50, 50, 56, 45, 48, 49, 57, 55, 10>> }  \* FAX：082-228-0197\n

\* lines about counsel
CounselLines ==
  { <<21407, 21578, 35380, 35359, 20195, 29702, 20154, 24321, 35703, 22763, 32, 30707, 32, 21475, 32, 20426, 32, 19968, 32, 30693, 10>>,  \* 原告訴訟代理人弁護士 石 口 俊 一 知\n
    <<21407, 21578, 12425, 20195, 29702, 20154, 24321, 35703, 22763, 32, 23665, 30000, 22826, 37070, 27425, 10>>,  \* 原告ら代理人弁護士 山田太郎次\n
    <<34987, 21578, 35380, 35359, 20195, 29702, 20154, 24321, 35703, 22763, 32, 30000, 20013, 19968, 37070, 10>>,  \* 被告訴訟代理人弁護士 田中一郎\n
    <<24321, 35703, 22763, 32, 30707, 21475, 32, 82, 32, 34, 112, 101, 116, 32, 105, 10>>,  \* 弁護士 石口 R "pet i\n
    <<24321, 35703, 22763, 32, 30707, 21475, 20426, 19968, 32, 23451, 12390, 10>>,  \* 弁護士 石口俊一 宛て\n
    <<24321, 35703, 22763, 32, 30707, 21475, 20426, 32, 27583, 10>>,  \* 弁護士 石口俊 殿\n
    <<24321, 35703, 22763, 27861, 20154, 32, 30000, 20013, 20107, 21209, 25152, 10>>,  \* 弁護士法人 田中事務所\n
    <<25285, 24403, 32, 24321, 35703, 22763, 32, 30000, 20013, 19968, 37070, 10>> }  \* 担当 弁護士 田中一郎\n

\* lines with a fax number and the label of its owner; FaxPad fills the
\* window looked at before a fax number, and FarApart is a text with the
\* two counsel labels further apart than the window
FaxPad == [i \in 1..LookBack |-> 61]  \* =
FaxLines ==
  { <<34987, 21578, 35380, 35359, 20195, 29702, 20154, 32, 70, 65, 88, 32, 48, 51, 45, 48, 48, 48, 48, 45, 48, 48, 48, 48, 10>>,  \* 被告訴訟代理人 FAX 03-0000-0000\n
    <<21407, 21578, 35380, 35359, 20195, 29702, 20154, 32, 70, 65, 88, 32, 48, 54, 45, 49, 49, 49, 49, 45, 49, 49, 49, 49, 10>>,  \* 原告訴訟代理人 FAX 06-1111-1111\n
    <<30707, 21475, 32, 40, 70, 65, 88, 32, 48, 54, 45, 50, 50, 50, 50, 45, 51, 51, 51, 51, 41, 10>>,  \* 石口 (FAX 06-2222-3333)\n
    <<30000, 20013, 65288, 70, 97, 120, 32, 48, 56, 50, 45, 53, 53, 53, 45, 49, 50, 51, 52, 65289, 10>>,  \* 田中（Fax 082-555-1234）\n
    <<65318, 65313, 65336, 12288, 65296, 65304, 65298, 12540, 65301, 65301, 65301, 12540, 65297, 65298, 65299, 65300, 10>> }  \* ＦＡＸ　０８２ー５５５ー１２３４\n

FarApart ==
  <<34987, 21578, 35380, 35359, 20195, 29702, 20154, 32, 70, 65, 88, 32, 48, 51, 45, 48, 48, 48, 48, 45, 48, 48, 48, 48, 10>> \o FaxPad \o <<21407, 21578, 35380, 35359, 20195, 29702, 20154, 32, 70, 65, 88, 32, 48, 54, 45, 49, 49, 49, 49, 45, 49, 49, 49, 49, 10>>  \* 被告訴訟代理人 FAX 03-0000-0000\n 原告訴訟代理人 FAX 06-1111-1111\n

\* lines of the section 事件の表示 and lines with an era year
DisplayLines ==
  { <<20107, 20214, 12398, 34920, 31034, 12305, 32, 31532, 50, 50, 56, 21495, 10>>,  \* 事件の表示】 第228号\n
    <<20107, 20214, 12398, 34920, 31034, 32, 40, 12493, 41, 32, 31532, 32, 53, 32, 21495, 10>>,  \* 事件の表示 (ネ) 第 5 号\n
    <<20107, 32, 20214, 32, 12398, 32, 34920, 32, 31034, 10, 10, 32, 54, 24180, 65288, 12527, 65289, 31532, 49, 21495, 10>>,  \* 事 件 の 表 示\n\n 6年（ワ）第1号\n
    <<20107, 20214, 12398, 34920, 31034, 32, 50, 50, 56, 21495, 10>>,  \* 事件の表示 228号\n
    <<20196, 21644, 32, 55, 32, 24180, 32, 49, 32, 26376, 10>>,  \* 令和 7 年 1 月\n
    <<20196, 21644, 48, 54, 24180, 10>>,  \* 令和06年\n
    <<20196, 21644, 54, 24180, 40, 12527, 41, 31532, 65297, 21495, 10>> }  \* 令和6年(ワ)第１号\n

\* lines with the name of the case and of the parties
NameLines ==
  { <<21495, 32, 25613, 23475, 32, 36064, 20767, 10, 65297, 65298, 32, 35531, 27714, 32, 20107, 20214, 10>>,  \* 号 損害 賠償\n１２ 請求 事件\n
    <<21495, 32, 24314, 29289, 26126, 28193, 31561, 32, 20107, 20214, 10>>,  \* 号 建物明渡等 事件\n
    <<24403, 20107, 32773, 32, 21407, 21578, 32, 23665, 30000, 32, 27665, 23376, 32, 22806, 32, 49, 32, 21517, 10>>,  \* 当事者 原告 山田 民子 外 1 名\n
    <<34987, 21578, 12288, 22269, 31435, 22823, 23398, 27861, 20154, 24195, 23798, 22823, 23398, 65298, 10>>,  \* 被告　国立大学法人広島大学２\n
    <<12304, 21407, 21578, 12305, 32, 22806, 50, 21517, 10>> }  \* 【原告】 外2名\n

\* the texts made of at most n lines of a set of lines
TextsFrom(lines, n) == { Join(f) : f \in UNION { [1..k -> lines] : k \in 0..n } }

\* a string of k digits
Digits(k) == SubSeq(<<54, 49, 55, 50, 56, 51, 57, 52>>, 1, k)  \* 61728394
DigitStrings == { Digits(k) : k \in 1..MaxDigits }

\* the strings of the strict grammar of a case number: era name, year,
\* bracketed symbol, serial number
CaseNumberStrings ==
  { era \o <<21644>> \o year \o <<24180>> \o sym \o dai \o serial \o <<21495>> :  \* 和 年 号
      era \in { <<20196>>, <<24179>> }, year \in DigitStrings,  \* 令 平
      sym \in { <<40, 12527, 41>>, <<65288, 34892, 65289>>, <<40, 12397, 65289>> }, dai \in { <<31532>>, <<>>, <<32, 31532>> },  \* (ワ) （行） (ね） 第  第
      serial \in DigitStrings }

\* s with a single space between every pair of adjacent characters
RECURSIVE Spaced(_)
Spaced(s) == IF Len(s) <= 1 THEN s ELSE << s[1], 32 >> \o Spaced(Tail(s))  \*  

\* s with a single space between every pair of adjacent characters that
\* are not both digits
RECURSIVE SpacedTokens(_)
SpacedTokens(s) ==
  IF Len(s) <= 1 THEN s
  ELSE IF InRanges(s[1], DigitRanges) /\ InRanges(s[2], DigitRanges)
    THEN << s[1] >> \o SpacedTokens(Tail(s))
  ELSE << s[1], 32 >> \o SpacedTokens(Tail(s))  \*  

CaseNumberTexts ==
  CaseNumberStrings \cup { Spaced(s) : s \in CaseNumberStrings }
                    \cup { SpacedTokens(s) : s \in CaseNumberStrings }

\* CONFIG: no config.json, or the names and fax numbers of the own office
NoConfig == [lawyerNames |-> <<>>, faxNumbers |-> <<>>]
OfficeConfig == [lawyerNames |-> << <<30000, 20013>> >>, faxNumbers |-> << <<48, 56, 50, 45, 53, 53, 53, 45, 49, 50, 51, 52>> >>]  \* 田中 082-555-1234

\* the documents: a text and the configuration it is read under
Documents ==
  ((TextsFrom(CourtFaxLines, MaxPieces) \cup TextsFrom(CounselLines, MaxPieces)
      \cup TextsFrom(FaxLines, MaxPieces) \cup { FarApart }) \X { NoConfig, OfficeConfig })
    \cup ((TextsFrom(CourtLines, MaxPieces) \cup TextsFrom(DisplayLines, MaxPieces)
             \cup TextsFrom(NameLines, MaxPieces) \cup CaseNumberTexts) \X { NoConfig })

InitExtract ==
  /\ pc = "extract"
  /\ IdleReplace
  /\ IdleFind
  /\ IdleDetect
  /\ IdleConvert
  /\ \E doc \in Documents :
       /\ text = doc[1]
       /\ config = doc[2]
  /\ info = <<>>
  /\ faxLists = NoFaxLists
  /\ faxIdx = 0

\* info = extractInfoFromText(text)
Extract ==
  /\ pc = "extract"
  /\ info' = << extractInfoFromText(text, config) >>
  /\ pc' = "extracted"
  /\ UNCHANGED <<replaceVars, findVars, detectVars, convertVars, text, config, faxLists, faxIdx>>

NextExtract == Extract

SpecExtract == InitExtract /\ [][NextExtract]_vars

\* ========================================================================
\* Properties of extractInfoFromText
\* ========================================================================
Extracted == pc = "extracted"

\* the text the patterns are matched against
NormalText == normalizeLines(text)

\* C11: when the court-name pattern matches more than once, courtName is
\* one of the whitespace-stripped matches and no match is longer; a bare
\* court name is not chosen when a match extends it with a branch or a
\* civil division.
C11_LongestCourtNameChosen ==
  Extracted =>
    LET cs == courtCandidates(NormalText)
    IN  Len(cs) > 1 =>
          /\ info[1].courtName # <<>>
          /\ \E i \in 1..Len(cs) : info[1].courtName[1] = cs[i]
          /\ \A i \in 1..Len(cs) : Len(cs[i]) <= Len(info[1].courtName[1])
          /\ \A i \in 1..Len(cs) :
               (cs[i] # info[1].courtName[1]) => ~StartsWith(cs[i], info[1].courtName[1])
          /\ \A k \in 1..Len(info[1].courtName[1]) : ~IsWs(info[1].courtName[1][k])

\* C11 witness: two matches, the bare name first and the longer one with a
\* civil division, written with spaces, after it.
C11_Witness ==
  /\ Extracted
  /\ LET cs == courtCandidates(NormalText)
     IN  /\ Len(cs) = 2
         /\ Len(cs[1]) < Len(cs[2])
         /\ StartsWith(cs[2], cs[1])
         /\ info[1].courtName = << cs[2] >>
         /\ ~Includes(NormalText, cs[2])

\* C12 as stated: the case number extracted from a string of the strict
\* grammar with a space between every pair of adjacent characters is the one
\* extracted from the string itself.
C12_InvariantUnderFullSpacing ==
  Extracted =>
    \A s \in CaseNumberStrings :
      text = Spaced(s) =>
        /\ extractInfoFromText(s, config).caseNumber # <<>>
        /\ info[1].caseNumber = extractInfoFromText(s, config).caseNumber

\* C12 amended: the case number extracted from a string of the strict
\* grammar with a space between every pair of adjacent characters that are
\* not both digits is the one extracted from the string itself, which is the
\* string without white space and with half-width brackets.
C12_InvariantUnderTokenSpacing ==
  Extracted =>
    \A s \in CaseNumberStrings :
      text = SpacedTokens(s) =>
        /\ extractInfoFromText(s, config).caseNumber = << halfWidthParens(StripWs(s)) >>
        /\ info[1].caseNumber = extractInfoFromText(s, config).caseNumber

\* C12 witness: a spaced case number with full-width brackets and a serial
\* number of several digits.
C12_Witness ==
  /\ Extracted
  /\ \E s \in CaseNumberStrings :
       /\ text = SpacedTokens(s)
       /\ text # s
       /\ text # Spaced(s)
       /\ Includes(s, <<65288>>)  \* （
       /\ info[1].caseNumber # <<>>
       /\ ~Includes(info[1].caseNumber[1], <<65288>>)  \* （
       /\ ~Includes(info[1].caseNumber[1], <<32>>)  \*  

\* the fax entry found at index is written directly after the label and a space
LabelledFax(t, index, label) ==
  /\ index >= Len(label) + 1
  /\ Substring(t, index - Len(label) - 1, index) = label \o <<32>>  \*  

\* fax is neither an own-office number nor a number of the court dictionary
UnknownFax(fax) ==
  /\ ~isOwnFax(config, fax)
  /\ \A cf \in courtFaxValues : ~Includes(fax, cf)

\* C13 as stated: when the text holds 被告訴訟代理人 FAX a and, anywhere
\* after it, 原告訴訟代理人 FAX b, with a and b neither own-office nor court
\* numbers, a is in no field and plaintiffLawyerFax is b.
C13_PlaintiffFaxAfterDefendantFax ==
  Extracted =>
    LET es == allFaxEntries(NormalText)
    IN  \A i, j \in 1..Len(es) :
          ( /\ i < j
            /\ LabelledFax(NormalText, es[i].index, <<34987, 21578, 35380, 35359, 20195, 29702, 20154>>)  \* 被告訴訟代理人
            /\ LabelledFax(NormalText, es[j].index, <<21407, 21578, 35380, 35359, 20195, 29702, 20154>>)  \* 原告訴訟代理人
            /\ UnknownFax(es[i].fax)
            /\ UnknownFax(es[j].fax) )
          => /\ info[1].plaintiffLawyerFax = << es[j].fax >>
             /\ info[1].courtFaxFromPdf # << es[i].fax >>
             /\ info[1].courtFax # << es[i].fax >>

\* the candidates for the counsel name, one per name
CounselCandidates == uniqueCandidates(lawyerCandidates(NormalText, config))

\* some candidate of n characters is a strict prefix of the winner
PrefixOfLength(cands, winner, n) ==
  \E i \in 1..Len(cands) : Len(cands[i].name) = n /\ StartsWith(winner, cands[i].name)

\* C14 as stated: a winner of 5 characters with another candidate that is a
\* strict prefix of it, of any shorter length, is cut to its first 4
\* characters.
C14_TrimmedForAnyShorterPrefix ==
  Extracted =>
    LET cands == CounselCandidates
        winner == firstCandidate(cands).name
    IN  (Len(cands) > 0 /\ Len(winner) = NoisyLen) =>
          ((\E n \in 1..(NoisyLen - 1) : PrefixOfLength(cands, winner, n))
             => info[1].plaintiffLawyer = << Substring(winner, 0, TrimmedLen) >>)

\* C14 amended: a winner of 5 characters is cut to its first 4 characters
\* when another candidate of at most 3 characters is a prefix of it, and is
\* kept whole otherwise, also when a candidate of 4 characters is a prefix.
C14_TrimmedForFamilyNamePrefix ==
  Extracted =>
    LET cands == CounselCandidates
        winner == firstCandidate(cands).name
    IN  (Len(cands) > 0 /\ Len(winner) = NoisyLen) =>
          IF \E n \in 1..3 : PrefixOfLength(cands, winner, n)
            THEN info[1].plaintiffLawyer = << Substring(winner, 0, TrimmedLen) >>
            ELSE info[1].plaintiffLawyer = << winner >>

\* C14 witness: the winner 石口俊一知 of the formal pattern with the candidate
\* 石口俊 of three characters from another pattern.
C14_Witness ==
  /\ Extracted
  /\ LET cands == CounselCandidates
         winner == firstCandidate(cands).name
     IN  /\ Len(cands) > 1
         /\ winner = <<30707, 21475, 20426, 19968, 30693>>  \* 石口俊一知
         /\ PrefixOfLength(cands, winner, 3)
         /\ ~PrefixOfLength(cands, winner, 2)
  /\ info[1].plaintiffLawyer = << <<30707, 21475, 20426, 19968>> >>  \* 石口俊一

\* the string has no white-space character
NoWhitespace(s) == \A k \in 1..Len(s) : ~IsWs(s[k])

\* the string has no full-width digit
NoFullWidthDigit(s) == \A k \in 1..Len(s) : ~InRanges(s[k], FwDigitRanges)

\* the string is made of half-width digits and hyphens
CanonicalFax(s) == \A k \in 1..Len(s) : InRanges(s[k], DigitRanges) \/ s[k] = 45  \* -

\* the string has no full-width bracket
HalfWidthBrackets(s) == ~Includes(s, <<65288>>) /\ ~Includes(s, <<65289>>)  \* （ ）

\* the only white space of the string is one space directly before a final
\* 外N名 with N in half-width digits
SpaceBeforeOthers(s) ==
  \E k \in 1..Len(s) :
    /\ s[k] = 32  \*  
    /\ \A j \in (1..Len(s)) \ {k} : ~IsWs(s[j])
    /\ Len(s) >= k + 3
    /\ s[k + 1] = 22806  \* 外
    /\ s[Len(s)] = 21517  \* 名
    /\ \A j \in (k + 2)..(Len(s) - 1) : InRanges(s[j], DigitRanges)

\* a field that is absent or satisfies the condition named
FieldIs(field, condition) ==
  \/ field = <<>>
  \/ /\ Len(field) = 1
     /\ CASE condition = "plain" -> NoWhitespace(field[1]) /\ NoFullWidthDigit(field[1])
          [] condition = "nowhitespace" -> NoWhitespace(field[1])
          [] condition = "fax" -> CanonicalFax(field[1])
          [] condition = "casenumber" ->
               NoWhitespace(field[1]) /\ NoFullWidthDigit(field[1]) /\ HalfWidthBrackets(field[1])
          [] condition = "party" -> NoWhitespace(field[1]) \/ SpaceBeforeOthers(field[1])

\* C15 as stated: every field is absent or a string without white space and
\* without full-width digits; a fax number is made of half-width digits and
\* hyphens; a case number has half-width brackets.
C15_FieldsWhitespaceFreeCanonical ==
  Extracted =>
    /\ FieldIs(info[1].courtName, "plain")
    /\ FieldIs(info[1].caseName, "plain")
    /\ FieldIs(info[1].plaintiffName, "plain")
    /\ FieldIs(info[1].defendantName, "plain")
    /\ FieldIs(info[1].plaintiffLawyer, "plain")
    /\ FieldIs(info[1].caseNumber, "casenumber")
    /\ FieldIs(info[1].courtFax, "fax")
    /\ FieldIs(info[1].plaintiffLawyerFax, "fax")

\* C15 amended: every field is absent or a string; courtName, caseName,
\* plaintiffLawyer and caseNumber have no white space; plaintiffName and
\* defendantName have none except one space before a final 外N名; fax numbers
\* are made of half-width digits and hyphens; caseNumber has half-width
\* digits and brackets. Full-width digits of the text stay in courtName,
\* caseName and the party names.
C15_FieldsNormalizedPerField ==
  Extracted =>
    /\ FieldIs(info[1].courtName, "nowhitespace")
    /\ FieldIs(info[1].caseName, "nowhitespace")
    /\ FieldIs(info[1].plaintiffName, "party")
    /\ FieldIs(info[1].defendantName, "party")
    /\ FieldIs(info[1].plaintiffLawyer, "plain")
    /\ FieldIs(info[1].caseNumber, "casenumber")
    /\ FieldIs(info[1].courtFax, "fax")
    /\ FieldIs(info[1].plaintiffLawyerFax, "fax")

\* C15 witness: a party name with 外N名 and a case name that keeps the
\* full-width digits of the text.
C15_Witness ==
  /\ Extracted
  /\ info[1].plaintiffName # <<>>
  /\ SpaceBeforeOthers(info[1].plaintiffName[1])
  /\ Len(info[1].plaintiffName[1]) > 4
  /\ info[1].caseName # <<>>
  /\ ~NoFullWidthDigit(info[1].caseName[1])
  /\ NoWhitespace(info[1].caseName[1])
  /\ ~NoWhitespace(text)

\* the field is absent or holds no own-office fax number
NotOwnFax(field) == field = <<>> \/ ~isOwnFax(config, field[1])

\* C16 as stated: no fax field holds a number that contains an own-office
\* fax number, whether the number was found after a court label in
\* brackets, after another label in brackets or without brackets.
C16_OwnFaxNeverAssigned ==
  Extracted =>
    /\ NotOwnFax(info[1].plaintiffLawyerFax)
    /\ NotOwnFax(info[1].courtFaxFromPdf)
    /\ NotOwnFax(info[1].courtFax)

\* the numbers the dictionary holds for the key
DictionaryValues(key) == { COURT_FAX_MAP[i][2] : i \in { j \in 1..Len(COURT_FAX_MAP) : COURT_FAX_MAP[j][1] = key } }

\* rest is a division qualifier at the end of a court name: 民事第N部 with
\* whatever follows it, or 第N民事部, 第N刑事部
DivisionQualifier(rest) ==
  \/ Test(rest, Cat(<< Bos, Str(<<27665, 20107, 31532>>), Plus(AnyDigit), Str(<<37096>>) >>))  \* 民事第 部
  \/ Test(rest, Cat(<< Bos, Str(<<31532>>), Plus(AnyDigit), OneOf(Chars(<<27665, 21009>>)), Str(<<20107, 37096>>), Eos >>))  \* 第 民刑 事部

\* the court name without its division qualifier, if it has one
WithoutDivision(name) ==
  LET cuts == { k \in 0..(Len(name) - 1) : DivisionQualifier(Substring(name, k, Len(name))) }
  IN  IF cuts = {} THEN name ELSE Substring(name, 0, SetMin(cuts))

\* C17: a court fax found in the text is the value of courtFax whatever the
\* dictionary holds for courtName; without one, courtFax is the number the
\* dictionary holds for courtName without its division qualifier, the empty
\* string when the dictionary has no such key, and absent without courtName.
C17_TextFaxSupersedesDictionary ==
  Extracted =>
    IF info[1].courtFaxFromPdf # <<>>
      THEN info[1].courtFax = info[1].courtFaxFromPdf
    ELSE IF info[1].courtName = <<>>
      THEN info[1].courtFax = <<>>
    ELSE LET values == DictionaryValues(WithoutDivision(info[1].courtName[1]))
         IN  /\ Len(info[1].courtFax) = 1
             /\ IF values = {} THEN info[1].courtFax[1] = <<>>
                               ELSE info[1].courtFax[1] \in values

\* C17 witness: the text names a court of the dictionary and gives another
\* fax number for it.
C17_Witness ==
  /\ Extracted
  /\ info[1].courtName # <<>>
  /\ DictionaryValues(WithoutDivision(info[1].courtName[1])) # {}
  /\ info[1].courtFaxFromPdf # <<>>
  /\ info[1].courtFaxFromPdf[1] \notin DictionaryValues(WithoutDivision(info[1].courtName[1]))
  /\ info[1].courtFax = info[1].courtFaxFromPdf

\* the text after the label 事件の表示, up to the end of the line
DisplaySection == Group(NormalText, Match(NormalText, displaySectionPattern, 1), 1)

\* only a bare serial number was found: the branch that sets caseNumberGuessed
SerialOnly == Extracted /\ info[1].caseNumberGuessed # <<>>

\* a bracketed case-type symbol stands in the section
SymbolFound == Test(DisplaySection, symbolPattern)

\* an era year 令和N年 stands somewhere in the text
YearFound == Test(NormalText, yearRegex)

\* the symbol written in the case number
SymbolUsed ==
  IF SymbolFound THEN Group(DisplaySection, Match(DisplaySection, symbolPattern, 1), 1)
                 ELSE DefaultSymbol

\* C18 as stated: in the fallback on a bare serial number, caseNumberGuessed
\* is true exactly when no bracketed symbol was found in the section; a
\* symbol that is found is used, and the case number is always set.
C18_GuessedIffNoSymbol ==
  SerialOnly =>
    /\ info[1].caseNumberGuessed = << ~SymbolFound >>
    /\ info[1].caseNumber # <<>>
    /\ Includes(info[1].caseNumber[1], <<40>> \o SymbolUsed \o <<41, 31532>>)  \* ( )第

\* C18 amended: in the fallback on a bare serial number, caseNumberGuessed
\* is true exactly when no bracketed symbol was found in the section or no
\* era year was found in the text; a symbol that is found is used, and the
\* case number is always set.
C18_GuessedIffNoSymbolOrNoYear ==
  SerialOnly =>
    /\ info[1].caseNumberGuessed = << ~SymbolFound \/ ~YearFound >>
    /\ info[1].caseNumber # <<>>
    /\ Includes(info[1].caseNumber[1], <<40>> \o SymbolUsed \o <<41, 31532>>)  \* ( )第

\* C18 witness: the section gives the symbol ネ and the text has no era
\* year; the case number has the symbol and is flagged.
C18_Witness ==
  /\ SerialOnly
  /\ SymbolFound
  /\ ~YearFound
  /\ SymbolUsed # DefaultSymbol
  /\ info[1].caseNumberGuessed = << TRUE >>
  /\ StartsWith(info[1].caseNumber[1], <<40>> \o SymbolUsed)  \* (

\* ========================================================================
\* px2pdf in the arithmetic of the engine
\*
\* A number of the engine is an IEEE 754 double. px2pdf rounds after each of
\* its operations, so a double is kept as a sign, a significand of 53 bits
\* (most significant bit first; the empty sequence for zero) and a binary
\* exponent: its value is m * 2^e, negated when neg holds. The page sizes
\* and pixel counts of a document are far from the subnormal and the
\* infinite range, which are left out.
\* ========================================================================
Precision == 53

\* room for the quotient bits of a division by a pixel count
GuardBits == 16

Zero == [neg |-> FALSE, m |-> <<>>, e |-> 0]

Zeros(n) == [i \in 1..n |-> 0]

\* the bits without their leading zeros
StripZeros(b) ==
  LET ones == { i \in 1..Len(b) : b[i] = 1 }
  IN  IF ones = {} THEN <<>> ELSE SubSeq(b, SetMin(ones), Len(b))

\* long numbers are multiplied and divided in limbs of LimbBits bits, most
\* significant limb first
LimbBits == 16

LimbBase == 2^LimbBits

\* the natural number written by at most LimbBits bits
RECURSIVE NatOfBits(_)
NatOfBits(b) == IF b = <<>> THEN 0 ELSE 2 * NatOfBits(SubSeq(b, 1, Len(b) - 1)) + b[Len(b)]

\* the bits of the limbs, and the limbs of the bits
BitsOfLimbs(ls) ==
  [i \in 1..(LimbBits * Len(ls)) |->
     (ls[((i - 1) \div LimbBits) + 1] \div 2^(LimbBits - 1 - ((i - 1) % LimbBits))) % 2]

LimbsOfBits(b) ==
  LET n == (Len(b) + LimbBits - 1) \div LimbBits
      padded == Zeros(n * LimbBits - Len(b)) \o b
  IN  [j \in 1..n |-> NatOfBits(SubSeq(padded, (j - 1) * LimbBits + 1, j * LimbBits))]

\* the bits of a natural number, without leading zeros
BitsOfNat(n) == StripZeros(BitsOfLimbs(<< n \div LimbBase, n % LimbBase >>))

\* the low limbs and the carry of ls[i..] * k for a natural number k
RECURSIVE MulFrom(_, _, _)
MulFrom(ls, k, i) ==
  IF i > Len(ls) THEN [limbs |-> <<>>, carry |-> 0]
  ELSE LET rest == MulFrom(ls, k, i + 1)
           v == ls[i] * k + rest.carry
       IN  [limbs |-> << v % LimbBase >> \o rest.limbs, carry |-> v \div LimbBase]

\* the bits of b * k
MulBits(b, k) ==
  LET p == MulFrom(LimbsOfBits(b), k, 1)
  IN  StripZeros(BitsOfLimbs(<< p.carry >> \o p.limbs))

\* quotient limbs and remainder of ls[i..] divided by a natural number
\* d > 0, with the remainder r of the limbs before
RECURSIVE DivFrom(_, _, _, _)
DivFrom(ls, d, i, r) ==
  IF i > Len(ls) THEN [limbs |-> <<>>, r |-> r]
  ELSE LET v == r * LimbBase + ls[i]
           rest == DivFrom(ls, d, i + 1, v % d)
       IN  [limbs |-> << v \div d >> \o rest.limbs, r |-> rest.r]

\* quotient bits and remainder of b divided by d
DivBits(b, d) ==
  LET qr == DivFrom(LimbsOfBits(b), d, 1, 0)
  IN  [q |-> StripZeros(BitsOfLimbs(qr.limbs)), r |-> qr.r]

\* b + 1 on bits of a fixed length that are not all ones
Increment(b) ==
  LET j == SetMax({ i \in 1..Len(b) : b[i] = 0 })
  IN  [i \in 1..Len(b) |-> IF i < j THEN b[i] ELSE IF i = j THEN 1 ELSE 0]

\* the double nearest to (b + f) * 2^e, where b has no leading zero and f is
\* a fraction below one that is not zero exactly when sticky holds; a tie
\* goes to the even significand
RoundToDouble(neg, b, sticky, e) ==
  IF b = <<>> THEN Zero
  ELSE IF Len(b) <= Precision
    THEN [neg |-> neg, m |-> b \o Zeros(Precision - Len(b)), e |-> e - (Precision - Len(b))]
  ELSE
    LET keep == SubSeq(b, 1, Precision)
        half == b[Precision + 1] = 1
        more == sticky \/ \E i \in (Precision + 2)..Len(b) : b[i] = 1
        up == half /\ (more \/ keep[Precision] = 1)
        shift == Len(b) - Precision
    IN  IF ~up THEN [neg |-> neg, m |-> keep, e |-> e + shift]
        ELSE IF \A i \in 1..Precision : keep[i] = 1
          THEN [neg |-> neg, m |-> << 1 >> \o Zeros(Precision - 1), e |-> e + shift + 1]
        ELSE [neg |-> neg, m |-> Increment(keep), e |-> e + shift]

\* the double of a natural number below 2^53
NatToDouble(n) == RoundToDouble(FALSE, BitsOfNat(n), FALSE, 0)

\* k * d for a natural number k
MulDouble(k, d) ==
  IF k = 0 \/ d.m = <<>> THEN Zero
  ELSE RoundToDouble(d.neg, MulBits(d.m, k), FALSE, d.e)

\* d / k for a natural number k > 0
DivDouble(d, k) ==
  IF d.m = <<>> THEN Zero
  ELSE LET qr == DivBits(d.m \o Zeros(GuardBits), k)
       IN  RoundToDouble(d.neg, qr.q, qr.r # 0, d.e - GuardBits)

\* the significand of d written at the exponent e <= d.e, on n bits
AlignedBits(d, e, n) ==
  LET b == IF d.m = <<>> THEN <<>> ELSE d.m \o Zeros(d.e - e)
  IN  Zeros(n - Len(b)) \o b

\* a < b for bits of the same length
BitsLess(a, b) ==
  \E i \in 1..Len(a) : a[i] < b[i] /\ \A j \in 1..(i - 1) : a[j] = b[j]

\* a - b for bits of the same length with a >= b: a borrow enters bit i
\* when the bits of a below it are less than those of b
SubBits(a, b) ==
  LET n == Len(a)
      borrow(i) == IF BitsLess(SubSeq(a, i + 1, n), SubSeq(b, i + 1, n)) THEN 1 ELSE 0
  IN  [i \in 1..n |-> (a[i] - b[i] - borrow(i) + 2) % 2]

\* the exponent and the width at which two doubles are compared
CommonExponent(a, b) ==
  IF a.m = <<>> THEN b.e ELSE IF b.m = <<>> THEN a.e ELSE Min(a.e, b.e)

CommonWidth(a, b) ==
  LET e == CommonExponent(a, b)
  IN  Precision + Max(IF a.m = <<>> THEN 0 ELSE a.e - e, IF b.m = <<>> THEN 0 ELSE b.e - e)

\* |a| < |b|
MagnitudeLess(a, b) ==
  LET e == CommonExponent(a, b)
      n == CommonWidth(a, b)
  IN  BitsLess(AlignedBits(a, e, n), AlignedBits(b, e, n))

\* a - b for doubles a, b that are not negative
SubDouble(a, b) ==
  LET e == CommonExponent(a, b)
      n == CommonWidth(a, b)
      x == AlignedBits(a, e, n)
      y == AlignedBits(b, e, n)
  IN  IF x = y THEN Zero
      ELSE IF BitsLess(x, y) THEN RoundToDouble(TRUE, StripZeros(SubBits(y, x)), FALSE, e)
      ELSE RoundToDouble(FALSE, StripZeros(SubBits(x, y)), FALSE, e)

\* a < b and a <= b for doubles
LessDouble(a, b) ==
  IF a.m = <<>> THEN b.m # <<>> /\ ~b.neg
  ELSE IF b.m = <<>> THEN a.neg
  ELSE IF a.neg # b.neg THEN a.neg
  ELSE IF a.neg THEN MagnitudeLess(b, a)
  ELSE MagnitudeLess(a, b)

LeqDouble(a, b) == a = b \/ LessDouble(a, b)

\* the double written with the hexadecimal digits of its significand (the
\* leading 1 and thirteen digits) and the exponent of its leading bit
HexBits(h) ==
  [i \in 1..(4 * Len(h)) |-> (h[((i - 1) \div 4) + 1] \div 2^(3 - ((i - 1) % 4))) % 2]

HexDouble(h, exponent) ==
  [neg |-> FALSE, m |-> << 1 >> \o HexBits(h), e |-> exponent - (Precision - 1)]

\* faulty variant: the vertical axis is scaled but not flipped
px2pdfDouble_noFlip(px, py, imgW, imgH, pgW, pgH) ==
  [x |-> DivDouble(MulDouble(px, pgW), imgW),
   y |-> DivDouble(MulDouble(py, pgH), imgH)]

\* px2pdf on doubles: x: px * pgW / imgW, y: pgH - (py * pgH / imgH), for
\* whole numbers px, py, imgW, imgH and doubles pgW, pgH
px2pdfDouble(px, py, imgW, imgH, pgW, pgH) ==
  [x |-> DivDouble(MulDouble(px, pgW), imgW),
   y |-> SubDouble(pgH, DivDouble(MulDouble(py, pgH), imgH))]


\* ------------------------------------------------------------------------
\* Calls of px2pdf: the pixel sizes of rendered pages, the sizes of pages
\* in points and pixels on a grid over the image
\* ------------------------------------------------------------------------
MaxStep == 3

\* width and height of page images: A4 and Letter at 300 dpi, A4 at 216 dpi
ImageSizes == { [w |-> 2480, h |-> 3508], [w |-> 2550, h |-> 3300], [w |-> 1786, h |-> 2526] }

\* width and height of pages in points: A4 as 595.28 x 841.89, Letter as
\* 612 x 792, and a scanned A4 page of 595.3 x 841.85
PageSizes ==
  { [w |-> HexDouble(<< 2, 9, 10, 3, 13, 7, 0, 10, 3, 13, 7, 0, 10 >>, 9),
     h |-> HexDouble(<< 10, 4, 15, 1, 14, 11, 8, 5, 1, 14, 11, 8, 5 >>, 9)],
    [w |-> NatToDouble(612), h |-> NatToDouble(792)],
    [w |-> HexDouble(<< 2, 9, 10, 6, 6, 6, 6, 6, 6, 6, 6, 6, 6 >>, 9),
     h |-> HexDouble(<< 10, 4, 14, 12, 12, 12, 12, 12, 12, 12, 12, 12, 13 >>, 9)] }

\* the pixels of the grid along an axis of n pixels, both ends included
GridPixels(n) == { (i * n) \div MaxStep : i \in 0..MaxStep }

InitConvert ==
  /\ pc = "convert"
  /\ IdleReplace
  /\ IdleFind
  /\ IdleDetect
  /\ IdleExtract
  /\ \E img_ \in ImageSizes, pg_ \in PageSizes :
       \E px \in GridPixels(img_.w), py \in GridPixels(img_.h) :
         pixel = [px |-> px, py |-> py, imgW |-> img_.w, imgH |-> img_.h, pgW |-> pg_.w, pgH |-> pg_.h]
  /\ point = <<>>

\* point = px2pdf(px, py, imgW, imgH, pgW, pgH)
Convert ==
  /\ pc = "convert"
  /\ point' = << px2pdfDouble(pixel.px, pixel.py, pixel.imgW, pixel.imgH, pixel.pgW, pixel.pgH) >>
  /\ pc' = "converted"
  /\ UNCHANGED <<replaceVars, findVars, detectVars, extractVars, pixel>>

NextConvert == Convert

SpecConvert == InitConvert /\ [][NextConvert]_vars

\* ========================================================================
\* Properties of px2pdf
\* ========================================================================
Converted == pc = "converted"

\* the point of another pixel of the same image and page
PointOf(px, py) == px2pdfDouble(px, py, pixel.imgW, pixel.imgH, pixel.pgW, pixel.pgH)

\* the double is a whole number
IsWhole(d) == d.m = <<>> \/ \A i \in 1..Precision : (i > Precision + d.e) => d.m[i] = 0

\* one unit in the last place of the double d
Ulp(d) == [neg |-> FALSE, m |-> << 1 >> \o Zeros(Precision - 1), e |-> d.e - (Precision - 1)]

\* |a - b| is at most one unit in the last place of b, for a, b >= 0
WithinUlp(a, b) ==
  LET diff == IF LessDouble(a, b) THEN SubDouble(b, a) ELSE SubDouble(a, b)
  IN  LeqDouble(diff, Ulp(b))

\* |a| is at most one unit in the last place of b
SmallAs(a, b) == LeqDouble([a EXCEPT !.neg = FALSE], Ulp(b))

\* C19 as stated: pixel (0,0) maps to (0,pgH), pixel (imgW,imgH) maps to
\* (pgW,0), a pixel inside the image maps inside the page, and a larger
\* pixel y never gives a larger document y.
C19_LinearScalingWithFlip ==
  Converted =>
    /\ (pixel.px = 0 /\ pixel.py = 0) => point[1] = [x |-> Zero, y |-> pixel.pgH]
    /\ (pixel.px = pixel.imgW /\ pixel.py = pixel.imgH) => point[1] = [x |-> pixel.pgW, y |-> Zero]
    /\ LeqDouble(Zero, point[1].x) /\ LeqDouble(point[1].x, pixel.pgW)
    /\ LeqDouble(Zero, point[1].y) /\ LeqDouble(point[1].y, pixel.pgH)
    /\ \A py \in GridPixels(pixel.imgH) :
         py > pixel.py => LeqDouble(PointOf(pixel.px, py).y, point[1].y)

\* C19 amended: with every operation rounded to the nearest double, pixel
\* (0,0) maps to (0,pgH); a larger pixel y never gives a larger document y
\* and a larger pixel x never a smaller document x; for a pixel inside the
\* image x >= 0 and y <= pgH, while x exceeds pgW and y falls below 0 by at
\* most one unit in the last place of the page size; pixel (imgW,imgH) maps
\* to (pgW,0) up to that unit, and exactly when pgW and pgH are whole.
C19_ScalingWithFlipUpToRounding ==
  Converted =>
    /\ (pixel.px = 0 /\ pixel.py = 0) => point[1] = [x |-> Zero, y |-> pixel.pgH]
    /\ (pixel.px = pixel.imgW /\ pixel.py = pixel.imgH) =>
         /\ WithinUlp(point[1].x, pixel.pgW)
         /\ SmallAs(point[1].y, pixel.pgH)
         /\ (IsWhole(pixel.pgW) /\ IsWhole(pixel.pgH)) => point[1] = [x |-> pixel.pgW, y |-> Zero]
    /\ LeqDouble(Zero, point[1].x)
    /\ LeqDouble(point[1].y, pixel.pgH)
    /\ LeqDouble(point[1].x, pixel.pgW) \/ WithinUlp(point[1].x, pixel.pgW)
    /\ LeqDouble(Zero, point[1].y) \/ SmallAs(point[1].y, pixel.pgH)
    /\ (IsWhole(pixel.pgW) /\ IsWhole(pixel.pgH)) =>
         LeqDouble(point[1].x, pixel.pgW) /\ LeqDouble(Zero, point[1].y)
    /\ \A py \in GridPixels(pixel.imgH) :
         py > pixel.py => LeqDouble(PointOf(pixel.px, py).y, point[1].y)
    /\ \A px \in GridPixels(pixel.imgW) :
         px > pixel.px => LeqDouble(point[1].x, PointOf(px, pixel.py).x)

\* C19 witness: the bottom right pixel of a page whose height is not a
\* whole number of points maps below the page.
C19_Witness ==
  /\ Converted
  /\ pixel.px = pixel.imgW
  /\ pixel.py = pixel.imgH
  /\ ~IsWhole(pixel.pgH)
  /\ point[1].y.neg
  /\ point[1].y.m # <<>>
  /\ SmallAs(point[1].y, pixel.pgH)


\* ------------------------------------------------------------------------
\* Receipts with several strike targets and several counsel tokens
\* ------------------------------------------------------------------------
MaxTargets == 4

\* the words of such a receipt: the label, the addressee line with counsel
\* and two targets, a target on a line of its own, and a second line with
\* counsel and a target
StrikeCatalogue ==
  { Word(<<"ju", "ryo", "sho">>, 500, 300),
    Word(<<"ben", "go", "shi">>, 500, 430),
    Word(<<"gyo">>, 900, 440),
    Word(<<"gyo">>, 300, 400),
    Word(<<"gyo">>, 700, 600),
    Word(<<"dai", "ri", "nin", "ben", "go", "shi">>, 300, 700),
    Word(<<"gyo">>, 900, 710) }

InitStrike ==
  /\ pc = "detect"
  /\ IdleReplace
  /\ IdleFind
  /\ IdleExtract
  /\ IdleConvert
  /\ words \in UNION { [1..n -> StrikeCatalogue] : n \in 0..MaxTargets }
  /\ img \in ImgSizes
  /\ pg = [w |-> PgWidth, h |-> PgHeight]
  /\ anchors = <<>>
  /\ pos = <<>>
  /\ drawn = <<>>

SpecStrike == InitStrike /\ [][NextDetect]_vars

\* counsel tokens of the sub-region
CounselTokens == { i \in DOMAIN words : InSubRegion(i) /\ isBengo(words[i]) }

\* exact targets within the tolerance band of some counsel token
TargetsOnCounselLine ==
  { g \in ExactTargets : \E c \in CounselTokens : Abs(words[g].y1 - words[c].y1) < LineTol }

\* C20 as stated: with several exact targets in the sub-region, the strike
\* target is the rightmost of those within the tolerance band of a counsel
\* token of the sub-region when there is one, and the topmost target of the
\* sub-region otherwise.
C20_RightmostOnCounselLineElseTopmost ==
  (Detected /\ Cardinality(ExactTargets) >= 2) =>
    /\ anchors[1].gyouWord # <<>>
    /\ LET chosen == anchors[1].gyouWord[1].idx
       IN  IF TargetsOnCounselLine # {}
             THEN /\ chosen \in TargetsOnCounselLine
                  /\ \A g \in TargetsOnCounselLine : words[g].x1 <= words[chosen].x1
             ELSE /\ chosen \in ExactTargets
                  /\ \A g \in ExactTargets : words[chosen].y1 <= words[g].y1

\* ------------------------------------------------------------------------
\* Receipts with era words and date markers around the strike target and
\* the signature line
\* ------------------------------------------------------------------------
MaxDateWords == 4

\* the label, the strike target, an era word just below the target, a date
\* line, the date blank, the signature line, an era word just above the
\* signature line and a date marker below it
DateCatalogue ==
  { Word(<<"ju", "ryo", "sho">>, 500, 300),
    Word(<<"gyo">>, 900, 440),
    Word(<<"rei", "wa">>, 200, 450),
    Word(<<"nen", "gatsu", "hi">>, 400, 600),
    Word(<<"rei", "wa">>, 200, 800),
    Word(<<"dai", "ri", "nin">>, 300, 1400),
    Word(<<"rei">>, 200, 1395),
    Word(<<"nen">>, 400, 1600) }

InitDate ==
  /\ pc = "detect"
  /\ IdleReplace
  /\ IdleFind
  /\ IdleExtract
  /\ IdleConvert
  /\ words \in UNION { [1..n -> DateCatalogue] : n \in 0..MaxDateWords }
  /\ img \in ImgSizes
  /\ pg = [w |-> PgWidth, h |-> PgHeight]
  /\ anchors = <<>>
  /\ pos = <<>>
  /\ drawn = <<>>

SpecDate == InitDate /\ [][NextDetect]_vars

\* the date anchor is the box of an input word
DateFromWord == Detected /\ ~anchors[1].dateWord[1].estimated

\* the signature line was found among the words
AgentFromWord == Detected /\ ~anchors[1].agentWord[1].estimated

\* the band between the strike target (otherwise the sub-region start) and
\* the signature line (otherwise the image bottom)
BandTop == IF anchors[1].gyouWord # <<>> THEN anchors[1].gyouWord[1].y1 ELSE anchors[1].receiptStartY
BandBottom == IF AgentFromWord THEN anchors[1].agentWord[1].y1 ELSE img.h
InBand(i) == InSubRegion(i) /\ words[i].y1 > BandTop /\ words[i].y1 < BandBottom

\* the band the search is confined to: 20 px below the strike target and
\* 10 px above the signature line
SearchTop == IF anchors[1].gyouWord # <<>> THEN anchors[1].gyouWord[1].y1 + 20 ELSE anchors[1].receiptStartY
SearchBottom == IF AgentFromWord THEN anchors[1].agentWord[1].y1 - 10 ELSE img.h
InSearchBand(i) == InSubRegion(i) /\ words[i].y1 > SearchTop /\ words[i].y1 < SearchBottom

StartsWithEra(i) == Len(words[i].text) > 0 /\ words[i].text[1] = "rei"
HasDateMarker(i) == Includes(words[i].text, <<"nen">>) \/ Includes(words[i].text, <<"gatsu">>)

\* C21 as stated: a date anchor taken from an input word lies in the band
\* between the strike target (otherwise the sub-region start) and the
\* signature line (otherwise the image bottom), and a word that only has a
\* year or month marker is not chosen while a word of the band starts with
\* the era name.
C21_DateInBandEraPreferred ==
  DateFromWord =>
    LET d == anchors[1].dateWord[1].idx
    IN  /\ InBand(d)
        /\ StartsWithEra(d) \/ HasDateMarker(d)
        /\ ~StartsWithEra(d) => \A i \in DOMAIN words : ~(InBand(i) /\ StartsWithEra(i))

\* C21 amended: the same with the band that starts more than 20 px below
\* the strike target and ends more than 10 px above the signature line.
C21_DateInSearchBandEraPreferred ==
  DateFromWord =>
    LET d == anchors[1].dateWord[1].idx
    IN  /\ InSearchBand(d)
        /\ StartsWithEra(d) \/ HasDateMarker(d)
        /\ ~StartsWithEra(d) => \A i \in DOMAIN words : ~(InSearchBand(i) /\ StartsWithEra(i))

\* C21 witness: the signature line is found, the era word chosen lies below
\* a date line of the band, and a date marker lies below the signature line.
C21_Witness ==
  /\ DateFromWord
  /\ AgentFromWord
  /\ LET d == anchors[1].dateWord[1].idx
     IN  /\ StartsWithEra(d)
         /\ \E i \in DOMAIN words :
              InSearchBand(i) /\ HasDateMarker(i) /\ words[i].y1 < words[d].y1
  /\ \E i \in DOMAIN words : HasDateMarker(i) /\ words[i].y1 > BandBottom

\* ------------------------------------------------------------------------
\* The signature anchor
\* ------------------------------------------------------------------------
\* words of the sub-region with the agent token
AgentTokenWords ==
  { i \in DOMAIN words : InSubRegion(i) /\ Includes(words[i].text, <<"dai", "ri">>) }

\* words of the sub-region with a party token, below the vertical midpoint
\* of the sub-region
LowerPartyWords ==
  { i \in DOMAIN words :
      /\ InSubRegion(i)
      /\ Includes(words[i].text, <<"gen", "koku">>) \/ Includes(words[i].text, <<"hi", "koku">>)
      /\ 2 * words[i].y1 > anchors[1].receiptStartY + img.h }

\* the signature anchor is the lowest word of the set S
LowestOf(S) ==
  /\ ~anchors[1].agentWord[1].estimated
  /\ anchors[1].agentWord[1].idx \in S
  /\ \A i \in S : words[i].y1 <= anchors[1].agentWord[1].y1

\* C22: with a word of the sub-region containing the agent token the
\* signature anchor is the lowest of those words; otherwise it is the
\* lowest of the words containing a party token below the midpoint of the
\* sub-region, and no other word is ever taken.
C22_LowestAgentElseLowerParty ==
  Detected =>
    IF AgentTokenWords # {} THEN LowestOf(AgentTokenWords)
    ELSE IF LowerPartyWords # {} THEN LowestOf(LowerPartyWords)
    ELSE anchors[1].agentWord[1].estimated

\* C22 witness: two words with the agent token, the lower one is the
\* anchor, and a word with a party token lies lower still.
C22_Witness ==
  /\ Detected
  /\ Cardinality({ words[i].y1 : i \in AgentTokenWords }) >= 2
  /\ LowestOf(AgentTokenWords)
  /\ \E i \in LowerPartyWords : words[i].y1 > anchors[1].agentWord[1].y1

\* ------------------------------------------------------------------------
\* Cover letters naming counsel in several ways
\* ------------------------------------------------------------------------
MaxCounselLines == 2

\* lines with a counsel name: found by the formal, sender and general
\* patterns; by the addressee and general patterns; by the general pattern
\* alone with 2, 5, 4 and 3 characters; by the formal pattern with 6
\* characters
CounselTierLines ==
  { <<21407, 21578, 35380, 35359, 20195, 29702, 20154, 24321, 35703, 22763, 32, 30707, 21475, 20426, 19968, 10>>,  \* 原告訴訟代理人弁護士 石口俊一\n
    <<24321, 35703, 22763, 32, 30000, 20013, 19968, 37070, 32, 23451, 12390, 10>>,  \* 弁護士 田中一郎 宛て\n
    <<24321, 35703, 22763, 32, 30707, 21475, 10>>,  \* 弁護士 石口\n
    <<24321, 35703, 22763, 32, 23665, 30000, 22826, 37070, 27425, 10>>,  \* 弁護士 山田太郎次\n
    <<24321, 35703, 22763, 32, 37428, 26408, 33457, 23376, 10>>,  \* 弁護士 鈴木花子\n
    <<24321, 35703, 22763, 32, 20304, 34276, 20581, 10>>,  \* 弁護士 佐藤健\n
    <<21407, 21578, 12425, 20195, 29702, 20154, 24321, 35703, 22763, 32, 23665, 30000, 22826, 37070, 27425, 37070, 10>> }  \* 原告ら代理人弁護士 山田太郎次郎\n

InitCounsel ==
  /\ pc = "extract"
  /\ IdleReplace
  /\ IdleFind
  /\ IdleDetect
  /\ IdleConvert
  /\ text \in TextsFrom(CounselTierLines, MaxCounselLines)
  /\ config \in { NoConfig, OfficeConfig }
  /\ info = <<>>
  /\ faxLists = NoFaxLists
  /\ faxIdx = 0

SpecCounsel == InitCounsel /\ [][NextExtract]_vars

\* the cleaned candidates, one per match, before duplicates are collapsed
AllCandidates == lawyerCandidates(NormalText, config)

\* the best priority number of the candidates cs with the name
BestPriorityOf(cs, name) ==
  SetMin({ cs[i].priority : i \in { j \in 1..Len(cs) : cs[j].name = name } })

\* the names of cs whose best priority is the lowest priority number of all
TopNames(cs) ==
  { cs[i].name : i \in { j \in 1..Len(cs) : \A k \in 1..Len(cs) : cs[j].priority <= cs[k].priority } }

IdealLength(name) == Len(name) \in 3..4

\* the names the tie-break allows among the names S: one of 3 or 4
\* characters when there is one, and none longer of the same kind
Preferred(S) ==
  { n \in S : \A m \in S :
      /\ IdealLength(m) => IdealLength(n)
      /\ (IdealLength(m) = IdealLength(n)) => Len(m) <= Len(n) }

\* the counsel name is the name w, whole or cut to 4 characters
NamedAs(w) ==
  \/ info[1].plaintiffLawyer = << w >>
  \/ Len(w) = 5 /\ info[1].plaintiffLawyer = << Substring(w, 0, 4) >>

\* C23: the winner among the counsel-name candidates has the lowest
\* priority number of all candidates, a name counting with its best
\* priority; among the names of that priority one of 3 or 4 characters is
\* preferred over any other length, then the longer name.
C23_WinnerByPriorityThenLength ==
  Extracted =>
    IF Len(AllCandidates) = 0 THEN info[1].plaintiffLawyer = <<>>
    ELSE \E w \in Preferred(TopNames(AllCandidates)) : NamedAs(w)

\* C23 witness: the winner of 4 characters was found by several tiers and
\* a name of 6 characters shares its best priority.
C23_Witness ==
  /\ Extracted
  /\ info[1].plaintiffLawyer = << <<30707, 21475, 20426, 19968>> >>  \* 石口俊一
  /\ LET cs == AllCandidates
     IN  /\ Cardinality({ cs[i].priority : i \in { j \in 1..Len(cs) : cs[j].name = <<30707, 21475, 20426, 19968>> } }) >= 2  \* 石口俊一
         /\ \E i \in 1..Len(cs) : cs[i].name = <<23665, 30000, 22826, 37070, 27425, 37070>> /\ cs[i].priority = 1  \* 山田太郎次郎

\* ------------------------------------------------------------------------
\* The fax loops of extractInfoFromText, one candidate at a time
\* ------------------------------------------------------------------------
MaxFaxLines == 2

\* lines with a fax number: a court and a person, both labelled; labelled
\* with a court (two of them); unlabelled and in the dictionary; labelled
\* with a person; labelled with a person and the number of the own office;
\* labelled with a person and in the dictionary
FaxRoleLines ==
  { <<26481, 20140, 22320, 26041, 35009, 21028, 25152, 32, 40, 70, 65, 88, 32, 48, 51, 45, 49, 49, 49, 49, 45, 50, 50, 50, 50, 41, 32, 12392, 12289, 30707, 21475, 32, 40, 70, 65, 88, 32, 48, 54, 45, 50, 50, 50, 50, 45, 51, 51, 51, 51, 41, 10>>,  \* 東京地方裁判所 (FAX 03-1111-2222) と、石口 (FAX 06-2222-3333)\n
    <<26481, 20140, 22320, 26041, 35009, 21028, 25152, 32, 40, 70, 65, 88, 32, 48, 51, 45, 49, 49, 49, 49, 45, 50, 50, 50, 50, 41, 10>>,  \* 東京地方裁判所 (FAX 03-1111-2222)\n
    <<22823, 38442, 22320, 26041, 35009, 21028, 25152, 32, 40, 70, 65, 88, 32, 48, 54, 45, 53, 53, 53, 53, 45, 54, 54, 54, 54, 41, 10>>,  \* 大阪地方裁判所 (FAX 06-5555-6666)\n
    <<70, 65, 88, 65306, 48, 56, 50, 45, 50, 50, 56, 45, 48, 49, 57, 55, 10>>,  \* FAX：082-228-0197\n
    <<30707, 21475, 32, 40, 70, 65, 88, 32, 48, 54, 45, 50, 50, 50, 50, 45, 51, 51, 51, 51, 41, 10>>,  \* 石口 (FAX 06-2222-3333)\n
    <<30000, 20013, 65288, 70, 97, 120, 32, 48, 56, 50, 45, 53, 53, 53, 45, 49, 50, 51, 52, 65289, 10>>,  \* 田中（Fax 082-555-1234）\n
    <<23665, 30000, 32, 40, 70, 65, 88, 32, 48, 54, 45, 54, 51, 49, 54, 45, 50, 56, 48, 52, 41, 10>> }  \* 山田 (FAX 06-6316-2804)\n

InitFax ==
  /\ pc = "fax"
  /\ IdleReplace
  /\ IdleFind
  /\ IdleDetect
  /\ IdleConvert
  /\ text \in TextsFrom(FaxRoleLines, MaxFaxLines)
  /\ config \in { NoConfig, OfficeConfig }
  /\ info = <<>>
  /\ faxLists = NoFaxLists
  /\ faxIdx = 0

\* the fax fields set so far
FaxFields == info[1]

\* the explicit court label, and the two lists built before their loops
FaxBegin ==
  /\ pc = "fax"
  /\ info' = << [courtFaxFromPdf |-> explicitCourtFax(NormalText, config), plaintiffLawyerFax |-> <<>>] >>
  /\ faxLists' = [allExplicitFaxes |-> allExplicitFaxes(NormalText), allFaxEntries |-> allFaxEntries(NormalText)]
  /\ faxIdx' = 1
  /\ pc' = "explicitFaxes"
  /\ UNCHANGED <<replaceVars, findVars, detectVars, convertVars, text, config>>

\* for (const ef of allExplicitFaxes): one pass
FaxLabelled ==
  /\ pc = "explicitFaxes"
  /\ faxIdx <= Len(faxLists.allExplicitFaxes)
  /\ info' = << [FaxFields EXCEPT !.plaintiffLawyerFax =
                   explicitFaxStep(faxLists.allExplicitFaxes[faxIdx], config, FaxFields.courtFaxFromPdf, @)] >>
  /\ faxIdx' = faxIdx + 1
  /\ UNCHANGED <<pc, replaceVars, findVars, detectVars, convertVars, text, config, faxLists>>

\* the end of the loop over allExplicitFaxes
FaxLabelledEnd ==
  /\ pc = "explicitFaxes"
  /\ faxIdx > Len(faxLists.allExplicitFaxes)
  /\ faxIdx' = 1
  /\ pc' = "faxEntries"
  /\ UNCHANGED <<replaceVars, findVars, detectVars, convertVars, text, config, info, faxLists>>

\* for (const entry of allFaxEntries): one pass
FaxEntry ==
  /\ pc = "faxEntries"
  /\ faxIdx <= Len(faxLists.allFaxEntries)
  /\ info' = << classifyFaxEntry(NormalText, config, faxLists.allFaxEntries[faxIdx], FaxFields) >>
  /\ faxIdx' = faxIdx + 1
  /\ UNCHANGED <<pc, replaceVars, findVars, detectVars, convertVars, text, config, faxLists>>

\* the end of the loop over allFaxEntries
FaxEntriesEnd ==
  /\ pc = "faxEntries"
  /\ faxIdx > Len(faxLists.allFaxEntries)
  /\ pc' = "faxDone"
  /\ UNCHANGED <<replaceVars, findVars, detectVars, convertVars, extractVars>>

NextFax == FaxBegin \/ FaxLabelled \/ FaxLabelledEnd \/ FaxEntry \/ FaxEntriesEnd

SpecFax == InitFax /\ [][NextFax]_vars

\* the passes, taken one at a time, end with the fields the whole loops give
FaxStepsAgree == (pc = "faxDone") => (FaxFields = faxNumbersOf(NormalText, config))

\* the labelled entries that the first loop takes as counsel's
CounselLabelled ==
  { i \in 1..Len(faxLists.allExplicitFaxes) :
      LET ef == faxLists.allExplicitFaxes[i]
      IN  /\ ~Includes(ef.label, <<35009, 21028>>)  \* 裁判
          /\ ~isOwnFax(config, ef.fax)
          /\ ~(explicitCourtFax(NormalText, config) # <<>> /\ ef.fax = explicitCourtFax(NormalText, config)[1]) }

\* the entries of the second loop that the loop takes as the court's
CourtEntries ==
  { i \in 1..Len(faxLists.allFaxEntries) :
      LET e == faxLists.allFaxEntries[i]
      IN  /\ ~isOwnFax(config, e.fax)
          /\ ~isNearDefendantLawyer(textBefore(NormalText, e.index))
          /\ \E cf \in courtFaxValues : Includes(e.fax, cf) }

\* C24: once plaintiffLawyerFax or courtFaxFromPdf has received a value, no
\* later candidate changes it: each pass of the two loops leaves a field
\* that is already set as it is.
C24_RolesSetOnce ==
  [][ (info # <<>> /\ info' # <<>>) =>
        /\ (info[1].plaintiffLawyerFax # <<>> => info'[1].plaintiffLawyerFax = info[1].plaintiffLawyerFax)
        /\ (info[1].courtFaxFromPdf # <<>> => info'[1].courtFaxFromPdf = info[1].courtFaxFromPdf) ]_vars

\* both loops are over; counsel's fax is the first labelled candidate although
\* a later labelled candidate has another number, and the court's fax is the
\* one of the court's label although a later entry has a number of the
\* dictionary
C24_Witness ==
  /\ pc = "faxDone"
  /\ \E i \in CounselLabelled : \E j \in CounselLabelled :
       /\ i < j
       /\ \A k \in CounselLabelled : i <= k
       /\ faxLists.allExplicitFaxes[j].fax # faxLists.allExplicitFaxes[i].fax
       /\ FaxFields.plaintiffLawyerFax = << faxLists.allExplicitFaxes[i].fax >>
  /\ explicitCourtFax(NormalText, config) # <<>>
  /\ FaxFields.courtFaxFromPdf = explicitCourtFax(NormalText, config)
  /\ \E j \in CourtEntries : ~Includes(faxLists.allFaxEntries[j].fax, FaxFields.courtFaxFromPdf[1])

\* the labelled entries whose entity token contains the court word
CourtLabelled ==
  { i \in 1..Len(faxLists.allExplicitFaxes) : Includes(faxLists.allExplicitFaxes[i].label, <<35009, 21028>>) }  \* 裁判

\* no fax labelled with a court is counsel's fax
NoCourtLabelAsCounsel ==
  \A i \in CourtLabelled : FaxFields.plaintiffLawyerFax # << faxLists.allExplicitFaxes[i].fax >>

\* counsel's fax is not a number of the dictionary
NoDictionaryFaxAsCounsel ==
  \A cf \in courtFaxValues : FaxFields.plaintiffLawyerFax # << cf >>

\* C25: a fax labelled "(FAX n)" after an entity containing the court word is
\* never assigned to plaintiffLawyerFax, and plaintiffLawyerFax is never a
\* number of the court-fax dictionary.
C25_CounselFaxNeverCourtFax ==
  (pc = "faxDone") => (NoCourtLabelAsCounsel /\ NoDictionaryFaxAsCounsel)

\* ------------------------------------------------------------------------
\* The word list as an input
\* ------------------------------------------------------------------------
\* C26: the OCR word list is a read-only input: detectPositions leaves the
\* list and every word object of it unchanged, no property of a word is
\* added, removed or modified.
C26_WordListUnchanged == [][words' = words]_vars

\* ------------------------------------------------------------------------
\* Ties between pages
\* ------------------------------------------------------------------------
\* the pages with the highest score
TopPages ==
  { p \in 1..totalPages :
      \A q \in 1..totalPages : scoreReceiptPage(runOcr(q)) <= scoreReceiptPage(runOcr(p)) }

\* no page is taken at once
NoConfidentPage == \A p \in 1..totalPages : scoreReceiptPage(runOcr(p)) < Confident

\* C27: when no page of a document of several pages scores 50 or more and
\* several pages share the highest score, findReceiptPage returns page 1 if
\* it is one of them, else the last page if it is one of them, else the
\* lowest of them (the first in the order 1, N, 2, ..., N-1).
C27_TieByScanOrder ==
  (pc = "found" /\ totalPages > 1 /\ NoConfidentPage) =>
    ret[1].pageNum = (IF 1 \in TopPages THEN 1
                      ELSE IF totalPages \in TopPages THEN totalPages
                      ELSE SetMin(TopPages))

\* the last page is returned: it shares the highest score with a page in the
\* middle, and page 1 scores less
C27_Witness ==
  /\ pc = "found"
  /\ totalPages > 2
  /\ NoConfidentPage
  /\ 1 \notin TopPages
  /\ totalPages \in TopPages
  /\ \E p \in TopPages : 1 < p /\ p < totalPages
  /\ ret[1].pageNum = totalPages

\* ------------------------------------------------------------------------
\* The anchors against each other and against the image
\* ------------------------------------------------------------------------
DateAnchor == anchors[1].dateWord[1]
AgentAnchor == anchors[1].agentWord[1]

\* C28: in every result of detectPositions the date anchor is above the
\* signature anchor: y1 of the date box is smaller than y1 of the signature
\* box, whichever of the two anchors is real or estimated.
C28_DateAboveSignature == Detected => (DateAnchor.y1 < AgentAnchor.y1)

\* the same for each combination of found and estimated anchors
DateAbove_BothFound == (Detected /\ ~DateAnchor.estimated /\ ~AgentAnchor.estimated) => (DateAnchor.y1 < AgentAnchor.y1)
DateAbove_DateEstimated == (Detected /\ DateAnchor.estimated /\ ~AgentAnchor.estimated) => (DateAnchor.y1 < AgentAnchor.y1)
DateAbove_BothEstimated == (Detected /\ DateAnchor.estimated /\ AgentAnchor.estimated) => (DateAnchor.y1 < AgentAnchor.y1)
DateAbove_AgentEstimated == (Detected /\ ~DateAnchor.estimated /\ AgentAnchor.estimated) => (DateAnchor.y1 < AgentAnchor.y1)

\* the anchor lies in the receipt sub-region of the image
InsideSubRegion(a) ==
  /\ anchors[1].receiptStartY <= a.y1
  /\ a.y1 <= img.h
  /\ 0 <= a.x1
  /\ a.x1 <= img.w

\* C29: every estimated anchor of detectPositions lies inside the receipt
\* sub-region of the image: receiptStartY <= y1 <= imgH and 0 <= x1 <= imgW.
C29_EstimatesInsideSubRegion ==
  Detected => /\ (DateAnchor.estimated => InsideSubRegion(DateAnchor))
              /\ (AgentAnchor.estimated => InsideSubRegion(AgentAnchor))

\* the same for each estimate
Inside_AgentEstimated == (Detected /\ AgentAnchor.estimated) => InsideSubRegion(AgentAnchor)
Inside_DateEstimatedAlone ==
  (Detected /\ DateAnchor.estimated /\ AgentAnchor.estimated) => InsideSubRegion(DateAnchor)
Inside_DateEstimatedFromAgent ==
  (Detected /\ DateAnchor.estimated /\ ~AgentAnchor.estimated) => InsideSubRegion(DateAnchor)

\* ------------------------------------------------------------------------
\* applyInfoToTemplate
\* ------------------------------------------------------------------------
\* toFullWidthNumber
toFullWidthNumber(str) ==
  [i \in 1..Len(str) |-> IF str[i] >= 48 /\ str[i] <= 57 THEN str[i] + FullWidthOffset ELSE str[i]]  \* 0 9

\* toFullWidthNumber(info.courtFax).replace(/-/g, '－')
fullWidthFax(fax) ==
  LET fw == toFullWidthNumber(fax)
  IN  [i \in 1..Len(fw) |-> IF fw[i] = 45 THEN 65293 ELSE fw[i]]  \* - －

\* value + '　'.repeat(diff) when the value is shorter than the text it replaces
padded(orig, value) ==
  value \o [i \in 1..Max(0, Len(orig) - Len(value)) |-> 12288]  \* 　

\* the texts of the template that are replaced, in the order of the code
ORIG_COURT == <<31070, 25144, 22320, 26041, 35009, 21028, 25152, 23612, 23822, 25903, 37096, 31532, 65298, 27665, 20107, 37096>>  \* 神戸地方裁判所尼崎支部第２民事部
ORIG_LAWYER == <<22235, 26041, 20037, 23515>>  \* 四方久寛

TemplateTexts ==
  << ORIG_COURT, <<48, 54, 45, 54, 52, 51, 56, 45, 49, 55, 49, 48>>, <<65296, 65302, 8213, 65302, 65300, 65299, 65304, 65293, 65297, 65303, 65297, 65296>>, ORIG_LAWYER, <<48, 54, 45, 52, 55, 48, 56, 45, 51, 54, 51, 56>>,  \* 06-6438-1710 ０６―６４３８－１７１０ 06-4708-3638
     <<20196, 21644, 54, 24180, 49, 49, 26376, 55, 26085>>, <<20196, 21644, 54, 24180, 57, 26376>>, <<20196, 21644, 65299, 24180, 65288, 12527, 65289, 31532, 65304, 65296, 65296, 21495>>, <<25613, 23475, 36064, 20767, 35531, 27714, 20107, 20214>>,  \* 令和6年11月7日 令和6年9月 令和３年（ワ）第８００号 損害賠償請求事件
     <<26408, 26449, 27835, 32000>>, <<29420, 31435, 34892, 25919, 27861, 20154, 22269, 31435, 30149, 38498, 27231, 27083>>, <<34987, 21578, 31532, 65305, 28310, 20633, 26360, 38754>> >>  \* 木村治紀 独立行政法人国立病院機構 被告第９準備書面

\* the steps of applyInfoToTemplate, one for each call of safeReplaceInXml
Stages ==
  << "courtName", "courtFax", "courtFaxFullWidth", "plaintiffLawyer", "plaintiffLawyerFax",
     "dateCover", "dateReceipt", "caseNumber", "caseName", "plaintiffName", "defendantName",
     "documentTitle" >>

\* getTodayReiwa() on the day of the run, and the title passed by the caller
todayCover == <<20196, 21644, 56, 24180, 49, 49, 26376, 54, 26085>>  \* 令和8年11月6日
todayReceipt == <<20196, 21644, 56, 24180, 49, 49, 26376>>  \* 令和8年11月
documentTitle == <<31572, 24321, 26360>>  \* 答弁書

\* whether step k is taken (the if around it) and the text it inserts
IsSet(field) == field # <<>>

Applies(i, k) ==
  CASE k = 1 -> IsSet(i.courtName)
    [] k \in {2, 3} -> IsSet(i.courtFax)
    [] k = 4 -> IsSet(i.plaintiffLawyer)
    [] k = 5 -> IsSet(i.plaintiffLawyerFax)
    [] k = 8 -> IsSet(i.caseNumber)
    [] k = 9 -> IsSet(i.caseName)
    [] k = 10 -> IsSet(i.plaintiffName)
    [] k = 11 -> IsSet(i.defendantName)
    [] OTHER -> TRUE

Inserted(i, k) ==
  CASE k = 1 -> padded(ORIG_COURT, i.courtName[1])
    [] k = 2 -> i.courtFax[1]
    [] k = 3 -> fullWidthFax(i.courtFax[1])
    [] k = 4 -> padded(ORIG_LAWYER, i.plaintiffLawyer[1])
    [] k = 5 -> i.plaintiffLawyerFax[1]
    [] k = 6 -> todayCover
    [] k = 7 -> todayReceipt
    [] k = 8 -> toFullWidthNumber(i.caseNumber[1])
    [] k = 9 -> i.caseName[1]
    [] k = 10 -> i.plaintiffName[1]
    [] k = 11 -> i.defendantName[1]
    [] OTHER -> documentTitle

\* step k of applyInfoToTemplate on docXml
applyStep(docXml, i, k) ==
  IF Applies(i, k) THEN safeReplaceInXml(docXml, TemplateTexts[k], Inserted(i, k)) ELSE docXml

\* the template: one paragraph for each replaced text; the court name and
\* the case number are split over two runs
Template ==
  [k \in 1..Len(TemplateTexts) |->
     IF k \in {1, 8}
       THEN << Run(<<>>, SubSeq(TemplateTexts[k], 1, 4)),
               Run(<<SpacePreserve>>, SubSeq(TemplateTexts[k], 5, Len(TemplateTexts[k]))) >>
       ELSE << Run(<<>>, TemplateTexts[k]) >>]

\* the records applyInfoToTemplate is called with
TemplateInfos ==
  [courtName : { <<>>, << <<22823, 38442, 22320, 26041, 35009, 21028, 25152>> >> },  \* 大阪地方裁判所
   courtFax : { <<>>, << <<48, 54, 45, 54, 51, 49, 54, 45, 50, 56, 48, 52>> >>, << <<48, 54, 45, 52, 55, 48, 56, 45, 51, 54, 51, 56>> >> },  \* 06-6316-2804 06-4708-3638
   plaintiffLawyer : { <<>>, << <<30707, 21475>> >> },  \* 石口
   plaintiffLawyerFax : { <<>>, << <<48, 54, 45, 50, 50, 50, 50, 45, 51, 51, 51, 51>> >> },  \* 06-2222-3333
   caseNumber : { <<>>, << <<20196, 21644, 54, 24180, 40, 12527, 41, 31532, 49, 50, 51, 21495>> >> },  \* 令和6年(ワ)第123号
   caseName : { <<>>, << <<24314, 29289, 26126, 28193, 35531, 27714, 20107, 20214>> >> },  \* 建物明渡請求事件
   plaintiffName : { <<>>, << <<23665, 30000, 22826, 37070>> >>, << <<29420, 31435, 34892, 25919, 27861, 20154, 22269, 31435, 30149, 38498, 27231, 27083>> >> },  \* 山田太郎 独立行政法人国立病院機構
   defendantName : { <<>>, << <<37428, 26408, 33457, 23376>> >> }]  \* 鈴木花子

InitTemplate ==
  /\ pc = Stages[1]
  /\ IdleFind
  /\ IdleDetect
  /\ IdleConvert
  /\ text = <<>>
  /\ config = NoConfig
  /\ faxLists = NoFaxLists
  /\ faxIdx = 0
  /\ info \in { <<i>> : i \in TemplateInfos }
  /\ xml = Template
  /\ oldText = <<>>
  /\ newText = <<>>
  /\ outXml = Template

\* docXml = safeReplaceInXml(docXml, ...): the next step of applyInfoToTemplate
ApplyStep ==
  \E k \in DOMAIN Stages :
    /\ pc = Stages[k]
    /\ outXml' = applyStep(outXml, info[1], k)
    /\ pc' = (IF k < Len(Stages) THEN Stages[k + 1] ELSE "applied")
    /\ UNCHANGED <<findVars, detectVars, extractVars, convertVars, xml, oldText, newText>>

NextTemplate == ApplyStep

SpecTemplate == InitTemplate /\ [][NextTemplate]_vars

\* C30: a value inserted by an earlier substitution is never altered by a
\* later one: after the whole sequence each replaced text of the template
\* holds exactly the value of its own field (and is as in the template when
\* the field is not set).
C30_EachPlaceholderOwnValue ==
  (pc = "applied") =>
    \A k \in DOMAIN TemplateTexts :
      joinedText(outXml[k]) = (IF Applies(info[1], k) THEN Inserted(info[1], k) ELSE TemplateTexts[k])

\* an inserted value holds the text that a later step replaces
Collides(i) ==
  \E k \in DOMAIN Stages : \E l \in DOMAIN Stages :
    /\ k < l
    /\ Applies(i, k)
    /\ Applies(i, l)
    /\ Includes(Inserted(i, k), TemplateTexts[l])

\* the same without such a value
OwnValue_NoCollision == (pc = "applied" /\ ~Collides(info[1])) => C30_EachPlaceholderOwnValue

====
